---- MODULE Spec2Model ----
(***************************************************************************)
(* Chunked repository transfer of gitnestr-electron-sdk.                   *)
(*                                                                         *)
(*   sender   : GitBridge (electron-git-bridge/src/GitBridge.ts)           *)
(*              validateRepo, listFiles, streamRepository                  *)
(*   receiver : BrowserGitBridge (browser-git-bridge/src/BrowserGitBridge) *)
(*              initializeRepo, setTransferManifest, receiveChunk,         *)
(*              writeFile, waitForPendingWrites, isTransferComplete,       *)
(*              verifyTransfer, deleteRepository                           *)
(*                                                                         *)
(* Strings are sequences of tokens.  The tokens "/", "\\" and ":" are the  *)
(* characters the code treats specially; every other token stands for a    *)
(* run of ordinary characters.  Bytes are small naturals.                  *)
(***************************************************************************)
EXTENDS Integers, Sequences, FiniteSets, TLC

\* ---------------------------------------------------------------- bounds
MaxFileSize == 3        \* sender: a file holds 0..MaxFileSize bytes
MaxChunkSize == 2       \* sender: options.chunkSize ranges over 1..MaxChunkSize
MaxTotalChunks == 2     \* receiver: the number of chunks of the larger file
MaxCalls == 4           \* receiver: initializeRepo, setTransferManifest, receiveChunk and
                        \* deleteRepository calls in one behaviour
IsoMaxCalls == 3        \* receiver: the calls of a behaviour over several repositories

\* ------------------------------------------------------- general helpers
Min(a, b) == IF a < b THEN a ELSE b

Range(s) == {s[i] : i \in 1..Len(s)}

RECURSIVE Concat(_)
\* concatenation of a sequence of sequences, left to right
Concat(ss) == IF ss = <<>> THEN <<>> ELSE Head(ss) \o Concat(Tail(ss))

RECURSIVE ReplaceToken(_, _, _)
\* String.prototype.replace(/x/g, y) for a one-character pattern
ReplaceToken(s, from, to) ==
  IF s = <<>> THEN <<>>
  ELSE <<IF Head(s) = from THEN to ELSE Head(s)>> \o ReplaceToken(Tail(s), from, to)

RECURSIVE JoinWith(_, _)
\* the name segments of a path (one token each) joined by a separator
JoinWith(segs, sep) ==
  IF segs = <<>> THEN <<>>
  ELSE IF Len(segs) = 1 THEN <<Head(segs)>>
  ELSE <<Head(segs), sep>> \o JoinWith(Tail(segs), sep)

\* ======================================================================
\*                               SENDER
\* ======================================================================
VARIABLES
  repo,      \* the directory on disk: [rootKind, gitKind, readable, sep, files]
  options,   \* GitBridge.options: [chunkSize, maxRepoSize, excludePatterns, includeGitHistory]
  gen,       \* the suspended streamRepository() generator
  yielded    \* the elements the generator has yielded so far

senderVars == <<repo, options, gen, yielded>>

\* the receiver (BrowserGitBridge)
VARIABLES
  fs,                       \* the virtual filesystem: absolute path -> node
  transferManifests,        \* Map<repoKey, TransferManifest>
  currentTransfers,         \* Map<repoKey, Map<path, FileTransfer>> (object references)
  transferObjs,             \* the FileTransfer objects ever created, by reference
  pendingWrites,            \* Map<repoKey, Promise<void>[]> (promise references)
  writePromises,            \* the write promises ever created, by reference
  transferCompletePromises, \* Map<repoKey, Promise<void>> with its resolver
  verifyCalls,              \* the verifyTransfer call of each repository
  markCalls,                \* the markTransferComplete call of each repository
  waitCalls,                \* the waitForTransferComplete call of each repository
  calls                     \* how many calls the behaviour has made so far

\* the calls that deal with the completion signal
signalVars == <<markCalls, waitCalls>>

receiverVars == <<fs, transferManifests, currentTransfers, transferObjs, pendingWrites,
                  writePromises, transferCompletePromises, verifyCalls, signalVars, calls>>

\* the getRepository calls made on the receiver
VARIABLES
  getCalls                  \* Map<RepositoryId, outcome of the last getRepository call>

infoVars == <<getCalls>>

\* the proxy of the external CLI (GitnestrBridge)
VARIABLES
  activeProcesses,          \* Map<commandId, child process> (references into children)
  children,                 \* the child processes ever started, by reference
  clock                     \* what Date.now() returns

\* the proxy of the main process in the renderer (BrowserGitnestrBridge)
VARIABLES
  pendingRequests,          \* Map<id, request> (references into requests)
  requests,                 \* the requests ever sent: the promise and the timer of each
  delivered                 \* the messages handleIPCMessage was called with

ipcVars == <<pendingRequests, requests, delivered>>

\* the single-repository receiver (the earlier BrowserGitBridge)
VARIABLES
  legacy                    \* its fields, and the calls made on it

legacyVars == <<legacy>>

\* the host filesystem that GitnestrBridge.writeFile writes to
VARIABLES
  hostFs,                   \* the directories and files of the host
  writeFileCalls            \* the writeFile calls made: path, events, outcome

hostVars == <<hostFs, writeFileCalls>>

bridgeVars == <<activeProcesses, children, clock, ipcVars, legacyVars, hostVars>>

vars == <<senderVars, receiverVars, infoVars, bridgeVars>>

\* The files the walk can meet, each a sequence of name segments, in the
\* order readdir returns them.
WalkOrder == << <<"a.txt">>, <<"dir", "b.txt">>, <<".git", "HEAD">> >>

\* Byte j (1-based) of the file at position f of WalkOrder.  The chunker never
\* inspects a byte, so one content per (file, size) with pairwise distinct
\* bytes exposes every misplaced, repeated or dropped byte.
ByteOf(f, j) == 10 * f + j

FileBytes(f, n) == [j \in 1..n |-> ByteOf(f, j)]

\* DEFAULT_OPTIONS.excludePatterns: ['node_modules/**']
DefaultExcludePatterns == << <<"node_modules", "/", "**">> >>

\* DEFAULT_OPTIONS.maxRepoSize, and a small limit a caller may configure
DefaultMaxRepoSize == 1073741824
SmallMaxRepoSize == 4

\* ---- listFiles / listFilesRecursive
\* path.join(relativePath, entry.name) followed by replace(/\\/g, '/')
EntryRelativePath(segs, sep) == ReplaceToken(JoinWith(segs, sep), "\\", "/")

\* String.prototype.replace(/x/g, y) where y is several tokens long
RECURSIVE ReplaceTokenBy(_, _, _)
ReplaceTokenBy(s, from, to) ==
  IF s = <<>> THEN <<>>
  ELSE (IF Head(s) = from THEN to ELSE <<Head(s)>>) \o ReplaceTokenBy(Tail(s), from, to)

\* ---- matchGlobPattern.  A pattern is a sequence of tokens: "**", "*", "/",
\* "." and names, a name being a whole path segment of two characters or
\* more.  The three replace calls of lines 272-275 run one after the other,
\* each over the result of the one before: the '*' that the second writes
\* as part of ".*" is rewritten by the third.
GlobToRegex(pattern) ==
  ReplaceToken(ReplaceTokenBy(ReplaceToken(pattern, ".", "\\."), "**", <<".", "*">>),
               "*", "[^/]*")

\* new RegExp('^' + regex + '$').test(path), from token i of the path on;
\* partial: the first characters of token i are consumed already.  "."
\* takes one character, "[^/]*" any number of characters other than '/',
\* every other token stands for itself.
RECURSIVE RegexTestFrom(_, _, _, _, _)
RegexTestFrom(regex, j, path, i, partial) ==
  IF j > Len(regex) THEN i > Len(path)
  ELSE IF regex[j] = "."
    THEN /\ i <= Len(path)
         /\ IF partial
              THEN \/ RegexTestFrom(regex, j + 1, path, i, TRUE)
                   \/ RegexTestFrom(regex, j + 1, path, i + 1, FALSE)
              ELSE IF path[i] = "/" THEN RegexTestFrom(regex, j + 1, path, i + 1, FALSE)
                   ELSE RegexTestFrom(regex, j + 1, path, i, TRUE)
  ELSE IF regex[j] = "[^/]*"
    THEN \/ RegexTestFrom(regex, j + 1, path, i, partial)
         \/ /\ i <= Len(path)
            /\ path[i] # "/"
            /\ \/ RegexTestFrom(regex, j + 1, path, i + 1, FALSE)
               \/ RegexTestFrom(regex, j + 1, path, i, TRUE)
  ELSE /\ ~partial
       /\ i <= Len(path)
       /\ path[i] = (IF regex[j] = "\\." THEN "." ELSE regex[j])
       /\ RegexTestFrom(regex, j + 1, path, i + 1, FALSE)

matchGlobPattern(filePath, pattern) == RegexTestFrom(GlobToRegex(pattern), 1, filePath, 1, FALSE)

\* listFilesRecursive does not descend into a directory named node_modules
UnderNodeModules(segs) == \E i \in 1..(Len(segs) - 1) : segs[i] = "node_modules"

\* the filter of listFiles, lines 249-251
ExcludedByPattern(file) ==
  \E k \in 1..Len(options.excludePatterns) : matchGlobPattern(file, options.excludePatterns[k])

\* the files of the repository that listFiles() returns, in walk order;
\* options.includeGitHistory is not read
ListedTest(r, file) ==
  /\ ~UnderNodeModules(file.segs)
  /\ ~ExcludedByPattern(EntryRelativePath(file.segs, r.sep))

RECURSIVE ListedOf(_, _)
ListedOf(r, files) ==
  IF files = <<>> THEN <<>>
  ELSE (IF ListedTest(r, Head(files)) THEN <<Head(files)>> ELSE <<>>) \o ListedOf(r, Tail(files))

Listed(r) == CHOOSE l \in {ListedOf(s, s.files) : s \in {r}} : TRUE

\* the result of listFiles(): relative paths in walk order
ListFiles(r) ==
  LET listed == Listed(r)
  IN  [i \in 1..Len(listed) |-> EntryRelativePath(listed[i].segs, r.sep)]

\* makeRelativePath
MakeRelativePath(p) == ReplaceToken(p, "\\", "/")

RECURSIVE SumSizes(_)
SumSizes(files) == IF files = <<>> THEN 0 ELSE Len(Head(files).bytes) + SumSizes(Tail(files))

\* getRepoSize
GetRepoSize(r) == SumSizes(Listed(r))

\* ---- validateRepo: [threw, isValid, errors]
ValidateRepo(r, o) ==
  IF r.rootKind = "missing" \/ (r.rootKind = "dir" /\ r.gitKind = "dir" /\ r.listFails)
    THEN [threw |-> TRUE, isValid |-> FALSE, errors |-> <<>>]
  ELSE IF r.rootKind # "dir"
    THEN [threw |-> FALSE, isValid |-> FALSE, errors |-> <<"Path is not a directory">>]
  ELSE IF r.gitKind # "dir"
    THEN [threw |-> FALSE, isValid |-> FALSE, errors |-> <<"Path is not a git repository">>]
  ELSE IF GetRepoSize(r) > o.maxRepoSize
    THEN [threw |-> FALSE, isValid |-> FALSE, errors |-> <<"Repository size exceeds maximum allowed size">>]
  ELSE IF ~r.readable
    THEN [threw |-> FALSE, isValid |-> FALSE, errors |-> <<"Insufficient read permissions">>]
  ELSE [threw |-> FALSE, isValid |-> TRUE, errors |-> <<>>]

\* ---- streamRepository
\* a chunk count that rounds down instead of up
TotalChunksFloor(size, chunkSize) == size \div chunkSize

\* Math.ceil(stats.size / this.options.chunkSize)
TotalChunks(size, chunkSize) == (size + chunkSize - 1) \div chunkSize

\* a read offset counted in chunks instead of bytes
ReadPositionInChunks(chunkIndex, chunkSize) == chunkIndex

\* the file offset of fileHandle.read for chunk chunkIndex
ReadPosition(chunkIndex, chunkSize) == chunkIndex * chunkSize

\* fileHandle.read(buffer, 0, buffer.length, position): the bytes read
ReadAt(bytes, position, length) ==
  SubSeq(bytes, position + 1, Min(position + length, Len(bytes)))

\* a manifest that lists the files in the reverse of the streaming order
ManifestElementReversed(files) ==
  [kind |-> "manifest",
   files |-> [i \in 1..Len(files) |-> ReplaceToken(files[Len(files) + 1 - i], "\\", "/")],
   totalFiles |-> Len(files)]

ManifestElement(files) ==
  [kind |-> "manifest", files |-> [i \in 1..Len(files) |-> MakeRelativePath(files[i])],
   totalFiles |-> Len(files)]

ChunkElement(file, chunkIndex, totalChunks, data) ==
  [kind |-> "chunk", path |-> MakeRelativePath(file), index |-> chunkIndex,
   totalChunks |-> totalChunks, data |-> data]

CompleteElement == [kind |-> "complete"]

RECURSIVE Advance(_, _, _, _)
\* The generator resumed inside the for/while loops, about to read chunk
\* chunkIndex of file fileIdx: runs to the next yield.  [gen, element]
Advance(r, o, fileIdx, chunkIndex) ==
  IF fileIdx > Len(Listed(r))
    THEN [gen |-> [pc |-> "complete", fileIdx |-> fileIdx, chunkIndex |-> 0],
          element |-> CompleteElement]
  ELSE LET files == ListFiles(r)
           bytes == Listed(r)[fileIdx].bytes
           totalChunks == TotalChunks(Len(bytes), o.chunkSize)
           data == ReadAt(bytes, ReadPosition(chunkIndex, o.chunkSize), o.chunkSize)
       IN  IF Len(data) = 0
             THEN Advance(r, o, fileIdx + 1, 0)
             ELSE [gen |-> [pc |-> "chunk", fileIdx |-> fileIdx, chunkIndex |-> chunkIndex + 1],
                   element |-> ChunkElement(files[fileIdx], chunkIndex, totalChunks, data)]

\* ---- the repositories and options a behaviour starts from
FileChoices(f) == {[segs |-> WalkOrder[f], bytes |-> FileBytes(f, n)] : n \in 0..MaxFileSize}

RECURSIVE Listings(_)
\* every listing of files f..Len(WalkOrder) in walk order, each file present or not
Listings(f) ==
  IF f > Len(WalkOrder) THEN {<<>>}
  ELSE LET rest == Listings(f + 1)
       IN  rest \cup {<<c>> \o l : c \in FileChoices(f), l \in rest}

HasGitFile(l) == \E i \in 1..Len(l) : l[i].segs[1] = ".git"

Repositories ==
  {[rootKind |-> "missing", gitKind |-> "missing", readable |-> FALSE, listFails |-> FALSE,
    sep |-> "/", files |-> <<>>],
   [rootKind |-> "file", gitKind |-> "missing", readable |-> TRUE, listFails |-> FALSE,
    sep |-> "/", files |-> <<>>]}
  \cup
  {r \in [rootKind : {"dir"}, gitKind : {"missing", "file", "dir"}, readable : BOOLEAN,
           listFails : BOOLEAN, sep : {"/", "\\"}, files : Listings(1)] :
     HasGitFile(r.files) => r.gitKind = "dir"}

\* first next(): validation, listFiles, the manifest
\* readdirFails: the walk of listFiles() at line 177 fails although the one
\* of validateRepo went through
StreamStart ==
  /\ gen.pc = "start"
  /\ LET v == ValidateRepo(repo, options)
     IN  IF v.threw
           THEN gen' = [gen EXCEPT !.pc = "threw_INTERNAL_ERROR"] /\ UNCHANGED yielded
         ELSE IF ~v.isValid
           THEN gen' = [gen EXCEPT !.pc = "threw_INVALID_REPOSITORY"] /\ UNCHANGED yielded
         ELSE \E readdirFails \in BOOLEAN :
                IF readdirFails
                  THEN gen' = [gen EXCEPT !.pc = "threw_TRANSFER_ERROR"] /\ UNCHANGED yielded
                  ELSE /\ gen' = [pc |-> "manifest", fileIdx |-> 1, chunkIndex |-> 0]
                       /\ yielded' = Append(yielded, ManifestElement(ListFiles(repo)))
  /\ UNCHANGED <<repo, options>>
  /\ UNCHANGED <<receiverVars, infoVars, bridgeVars>>

\* a later next(): the loops run to the next yield
StreamNext ==
  /\ gen.pc \in {"manifest", "chunk"}
  /\ LET a == Advance(repo, options, gen.fileIdx, gen.chunkIndex)
     IN  gen' = a.gen /\ yielded' = Append(yielded, a.element)
  /\ UNCHANGED <<repo, options>>
  /\ UNCHANGED <<receiverVars, infoVars, bridgeVars>>

\* a loop that gives up on the first failing file and ends the stream as if
\* it were whole
StreamIOErrorSwallowed ==
  /\ gen.pc \in {"manifest", "chunk"}
  /\ gen.fileIdx <= Len(Listed(repo))
  /\ gen' = [pc |-> "complete", fileIdx |-> Len(Listed(repo)) + 1, chunkIndex |-> 0]
  /\ yielded' = Append(yielded, CompleteElement)
  /\ UNCHANGED <<repo, options>>
  /\ UNCHANGED <<receiverVars, infoVars, bridgeVars>>

\* fs.open, stat or read throws: the catch turns it into TRANSFER_ERROR
StreamIOError ==
  /\ gen.pc \in {"manifest", "chunk"}
  /\ gen.fileIdx <= Len(Listed(repo))
  /\ gen' = [gen EXCEPT !.pc = "threw_TRANSFER_ERROR"]
  /\ UNCHANGED <<repo, options, yielded>>
  /\ UNCHANGED <<receiverVars, infoVars, bridgeVars>>

\* next() after the completion marker: the generator returns
StreamReturn ==
  /\ gen.pc = "complete"
  /\ gen' = [gen EXCEPT !.pc = "done"]
  /\ UNCHANGED <<repo, options, yielded>>
  /\ UNCHANGED <<receiverVars, infoVars, bridgeVars>>


\* ======================================================================
\*                              RECEIVER
\* ======================================================================

\* ---- JavaScript Map as a function whose domain is the set of keys present
EmptyMap == [k \in {} |-> 0]
MapHas(m, k) == k \in DOMAIN m
MapSet(m, k, v) == [x \in DOMAIN m \cup {k} |-> IF x = k THEN v ELSE m[x]]
MapDelete(m, k) == [x \in DOMAIN m \ {k} |-> m[x]]

\* ---- the single-repository receiver after construction (lines 22-37)
NoManifest == [totalFiles |-> 0, files |-> <<>>]
NoChunk == [path |-> <<>>, index |-> 0, totalChunks |-> 0, data |-> <<>>]

LegacyNew ==
  [currentTransfer |-> <<>>, hasManifest |-> FALSE, transferManifest |-> NoManifest,
   transferComplete |-> FALSE, fs |-> (<<>> :> [type |-> "dir", data |-> <<>>, readable |-> FALSE]),
   calls |-> 0, last |-> [op |-> "none", manifest |-> NoManifest, chunk |-> NoChunk]]

\* ---- repository identifiers and chunk inputs
RepoA == [ownerPubkey |-> <<"alice">>, repoName |-> <<"r1">>]
RepoIds == {RepoA}

PathA == <<"a.txt">>
PathB == <<"dir", "/", "b.txt">>
ChunkPaths == {PathA, PathB}

\* the bytes of chunk index of a path: two bytes for an even index, one for
\* an odd one, all distinct
ChunkData(path, index) ==
  LET base == (IF path = PathA THEN 100 ELSE 200) + 10 * index
  IN  IF index % 2 = 0 THEN <<base, base + 1>> ELSE <<base>>

\* a.txt travels as one chunk, dir/b.txt as MaxTotalChunks chunks
TotalChunksOf(path) == IF path = PathA THEN 1 ELSE MaxTotalChunks

\* the chunks a sender may deliver, in any order and any number of times
FileChunks ==
  UNION {{[path |-> p, index |-> i, totalChunks |-> TotalChunksOf(p), data |-> ChunkData(p, i)] :
            i \in 0..(TotalChunksOf(p) - 1)} : p \in ChunkPaths}

Manifests ==
  {[totalFiles |-> Len(f), files |-> f] : f \in {<<>>, <<PathA>>, <<PathA, PathB>>}}

\* ---- getRepoPath / getRepoKey / normalizeRepoPath
getRepoPath(repoId) == <<"/">> \o repoId.ownerPubkey \o <<":">> \o repoId.repoName

getRepoKey(repoId) == repoId.ownerPubkey \o <<":">> \o repoId.repoName

RECURSIVE CollapseSlashes(_)
\* replace(/\/+/g, '/')
CollapseSlashes(s) ==
  IF Len(s) < 2 THEN s
  ELSE IF s[1] = "/" /\ s[2] = "/" THEN CollapseSlashes(Tail(s))
  ELSE <<Head(s)>> \o CollapseSlashes(Tail(s))

normalizeRepoPath(filePath, repoId) ==
  LET repoBase == getRepoPath(repoId)
      stripped == IF filePath # <<>> /\ Head(filePath) = "/" THEN Tail(filePath) ELSE filePath
      slashed == ReplaceToken(stripped, "\\", "/")
      normalizedPath == CollapseSlashes(slashed)
  IN  repoBase \o <<"/">> \o normalizedPath

\* ---- the virtual filesystem (LightningFS), reduced to what the bridge uses.
\* A path is the sequence of its non-empty segments; the root is <<>>.
RECURSIVE SplitAcc(_, _)
SplitAcc(s, cur) ==
  IF s = <<>> THEN (IF cur = <<>> THEN <<>> ELSE <<cur>>)
  ELSE IF Head(s) = "/" THEN (IF cur = <<>> THEN <<>> ELSE <<cur>>) \o SplitAcc(Tail(s), <<>>)
  ELSE SplitAcc(Tail(s), Append(cur, Head(s)))

\* split('/').filter(Boolean)
SplitPath(s) == SplitAcc(s, <<>>)

RECURSIVE ResolveAcc(_, _)
ResolveAcc(segs, acc) ==
  IF segs = <<>> THEN [ok |-> TRUE, path |-> acc]
  ELSE IF Head(segs) = <<".">> THEN ResolveAcc(Tail(segs), acc)
  ELSE IF Head(segs) = <<"..">>
    THEN IF acc = <<>> THEN [ok |-> FALSE, path |-> <<>>]
         ELSE ResolveAcc(Tail(segs), SubSeq(acc, 1, Len(acc) - 1))
  ELSE ResolveAcc(Tail(segs), Append(acc, Head(segs)))

ResolveValue(segs) ==
  IF \A i \in 1..Len(segs) : segs[i] \notin {<<".">>, <<"..">>}
    THEN [ok |-> TRUE, path |-> segs]
    ELSE ResolveAcc(segs, <<>>)

\* The filesystem normalizes every path it is given: "." is dropped, ".."
\* removes the segment before it, and a path that climbs above "/" is an
\* error.  [ok, path]  (the segments are evaluated once)
Resolve(segs) == CHOOSE r \in {ResolveValue(s) : s \in {segs}} : TRUE

\* the node a path string names
FsPath(s) == Resolve(SplitPath(s))

Parent(p) == SubSeq(p, 1, Len(p) - 1)

IsPrefix(p, q) == Len(p) <= Len(q) /\ SubSeq(q, 1, Len(p)) = p

\* readable: whether fs.promises.readFile of the node succeeds
DirNode == [type |-> "dir", data |-> <<>>, readable |-> FALSE]
FileNode(data) == [type |-> "file", data |-> data, readable |-> TRUE]

EmptyFs == (<<>> :> DirNode)

\* fs.promises.mkdir: [err, fs]
FsMkdir(f, p) ==
  IF p \in DOMAIN f THEN [err |-> "EEXIST", fs |-> f]
  ELSE IF Parent(p) \notin DOMAIN f THEN [err |-> "ENOENT", fs |-> f]
  ELSE IF f[Parent(p)].type # "dir" THEN [err |-> "ENOTDIR", fs |-> f]
  ELSE [err |-> "", fs |-> MapSet(f, p, DirNode)]

\* fs.promises.writeFile: [err, fs]
FsWriteFile(f, p, data) ==
  IF p = <<>> THEN [err |-> "EISDIR", fs |-> f]
  ELSE IF Parent(p) \notin DOMAIN f THEN [err |-> "ENOENT", fs |-> f]
  ELSE IF f[Parent(p)].type # "dir" THEN [err |-> "ENOTDIR", fs |-> f]
  ELSE IF p \in DOMAIN f /\ f[p].type = "dir" THEN [err |-> "EISDIR", fs |-> f]
  ELSE [err |-> "", fs |-> MapSet(f, p, FileNode(data))]

\* the tree under (and including) p removed
FsRemoveTree(f, p) == [q \in {x \in DOMAIN f : ~IsPrefix(p, x)} |-> f[q]]

RECURSIVE EnsureDirLoop(_, _, _)
\* the for loop of ensureDir from part k on: [ok, fs]
EnsureDirLoop(f, parts, k) ==
  IF k > Len(parts) THEN [ok |-> TRUE, fs |-> f]
  ELSE LET q == Resolve(SubSeq(parts, 1, k))
           r == IF q.ok THEN FsMkdir(f, q.path) ELSE [err |-> "EINVAL", fs |-> f]
       IN  IF r.err \notin {"", "EEXIST"} THEN [ok |-> FALSE, fs |-> r.fs]
           ELSE EnsureDirLoop(r.fs, parts, k + 1)

\* ensureDir(dirPath): [ok, fs]
ensureDir(f, dirPath) ==
  IF dirPath = <<"/">> THEN [ok |-> TRUE, fs |-> f]
  ELSE EnsureDirLoop(f, SplitPath(dirPath), 1)

\* ---- FileTransfer objects.  chunks is a Map<number, Uint8Array>: its
\* entries in insertion order, each index at most once.
NewFileTransfer(chunk) ==
  [chunks |-> <<>>, totalChunks |-> chunk.totalChunks, receivedChunks |-> 0,
   isComplete |-> FALSE]

\* Map.prototype.set: a present key keeps its place, a new key goes last
ChunksSet(chunks, index, data) ==
  IF \E i \in 1..Len(chunks) : chunks[i].index = index
    THEN [i \in 1..Len(chunks) |->
            IF chunks[i].index = index THEN [index |-> index, data |-> data] ELSE chunks[i]]
    ELSE Append(chunks, [index |-> index, data |-> data])

ChunkIndices(chunks) == {chunks[i].index : i \in 1..Len(chunks)}

RECURSIVE InsertByIndex(_, _)
InsertByIndex(sorted, e) ==
  IF sorted = <<>> THEN <<e>>
  ELSE IF e.index < Head(sorted).index THEN <<e>> \o sorted
  ELSE <<Head(sorted)>> \o InsertByIndex(Tail(sorted), e)

RECURSIVE SortByIndex(_)
\* Array.from(chunks.entries()).sort(([a], [b]) => a - b)
SortByIndex(entries) ==
  IF entries = <<>> THEN <<>>
  ELSE InsertByIndex(SortByIndex(SubSeq(entries, 1, Len(entries) - 1)), entries[Len(entries)])

\* a layout that keeps the arrival order of the chunks
SortedChunksArrival(chunks) == chunks

\* the order in which writeFile lays the chunks out
SortedChunks(chunks) == SortByIndex(chunks)

\* writeFile, lines 339-351: the bytes of the assembled file
AssembleFile(chunks) ==
  LET sortedChunks == SortedChunks(chunks)
  IN  Concat([i \in 1..Len(sortedChunks) |-> sortedChunks[i].data])

\* normalizedPath.substring(0, normalizedPath.lastIndexOf('/'))
DirName(normalizedPath) ==
  LET last == CHOOSE i \in 1..Len(normalizedPath) :
                /\ normalizedPath[i] = "/"
                /\ \A j \in (i + 1)..Len(normalizedPath) : normalizedPath[j] # "/"
  IN  SubSeq(normalizedPath, 1, last - 1)

\* ---- isTransferComplete
RECURSIVE AllFilesPresent(_, _)
\* a loop that only asks whether a transfer exists for each manifested path
AllFilesPresent(files, transfers) ==
  IF files = <<>> THEN TRUE
  ELSE IF ~MapHas(transfers, Head(files)) THEN FALSE
  ELSE AllFilesPresent(Tail(files), transfers)

RECURSIVE AllFilesComplete(_, _)
\* the for loop over manifest.files
AllFilesComplete(files, transfers) ==
  IF files = <<>> THEN TRUE
  ELSE IF ~MapHas(transfers, Head(files)) THEN FALSE
  ELSE IF ~transferObjs[transfers[Head(files)]].isComplete THEN FALSE
  ELSE AllFilesComplete(Tail(files), transfers)

isTransferComplete(repoId) ==
  LET repoKey == getRepoKey(repoId)
  IN  IF ~MapHas(transferManifests, repoKey) \/ ~MapHas(currentTransfers, repoKey)
        THEN FALSE
        ELSE AllFilesComplete(transferManifests[repoKey].files, currentTransfers[repoKey])

\* ---- verifyTransfer, after the wait for the pending writes
\* the check of one manifested path: "" when it passes
VerifyFile(filePath, repoId) ==
  LET q == FsPath(normalizeRepoPath(filePath, repoId))
  IN  IF ~q.ok \/ q.path \notin DOMAIN fs THEN "Failed to verify"
      ELSE IF fs[q.path].type # "file" THEN "exists but is not a file"
      ELSE IF ~fs[q.path].readable THEN "exists but cannot be read"
      ELSE ""

RECURSIVE VerifyFilesFirstOnly(_, _)
\* a loop that stops at the first path that fails
VerifyFilesFirstOnly(files, repoId) ==
  IF files = <<>> THEN <<>>
  ELSE LET e == VerifyFile(Head(files), repoId)
       IN  IF e = "" THEN VerifyFilesFirstOnly(Tail(files), repoId)
           ELSE <<[path |-> Head(files), error |-> e]>>

RECURSIVE VerifyFiles(_, _)
VerifyFiles(files, repoId) ==
  IF files = <<>> THEN <<>>
  ELSE LET e == VerifyFile(Head(files), repoId)
           rest == VerifyFiles(Tail(files), repoId)
       IN  IF e = "" THEN rest ELSE <<[path |-> Head(files), error |-> e]>> \o rest

\* the result verifyTransfer returns once its wait is over; manifest is the
\* one it read when it was called
VerifyResult(manifest, repoId) ==
  IF ~isTransferComplete(repoId)
    THEN [success |-> FALSE, errors |-> <<[path |-> <<>>, error |-> "Transfer is not complete"]>>]
    ELSE LET errors == VerifyFiles(manifest.files, repoId)
         IN  [success |-> Len(errors) = 0, errors |-> errors]

NoManifestResult ==
  [success |-> FALSE, errors |-> <<[path |-> <<>>, error |-> "No transfer manifest available"]>>]

\* ---- waitForPendingWrites: the promises Promise.all is given
PendingWritesOf(repoId) ==
  LET repoKey == getRepoKey(repoId)
  IN  IF MapHas(pendingWrites, repoKey) THEN pendingWrites[repoKey] ELSE <<>>

\* Promise.all over a set of write promises: "pending", "fulfilled", "rejected"
PromiseAll(ws) ==
  IF \E w \in ws : writePromises[w].state = "rejected" THEN "rejected"
  ELSE IF \A w \in ws : writePromises[w].state = "fulfilled" THEN "fulfilled"
  ELSE "pending"

\* ---- verifyTransfer.  A call is idle (never made), waiting (suspended in
\* waitForPendingWrites), returned or threw.
IdleCall == [stage |-> "idle", awaiting |-> {}, manifest |-> [totalFiles |-> 0, files |-> <<>>],
             result |-> [success |-> FALSE, errors |-> <<>>], error |-> ""]

ReturnedCall(result) == [IdleCall EXCEPT !.stage = "returned", !.result = result]

\* writeFile, lines 356-367: whatever fails in it is rethrown as a
\* GitBridgeError with this code; the .catch of receiveChunk rethrows it as is
WriteFileErrorCode == "INTERNAL_ERROR"

\* the await of the pending writes rejects, and nothing catches it
ThrewCall == [IdleCall EXCEPT !.stage = "threw", !.error = WriteFileErrorCode]

\* a verifyTransfer call whose await is over runs on: it throws what
\* Promise.all rejected with, or returns the result of its checks
RunOn(call, repoId) ==
  IF call.stage # "waiting" \/ PromiseAll(call.awaiting) = "pending" THEN call
  ELSE IF PromiseAll(call.awaiting) = "rejected" THEN ThrewCall
  ELSE ReturnedCall(VerifyResult(call.manifest, repoId))

\* every suspended call, resumed if the state lets it
ResumeCalls(waiting) == [id \in DOMAIN waiting |-> RunOn(waiting[id], id)]

\* the call itself, lines 198-207
verifyTransferEnter(repoId) ==
  LET repoKey == getRepoKey(repoId)
  IN  IF ~MapHas(transferManifests, repoKey) THEN ReturnedCall(NoManifestResult)
      ELSE [IdleCall EXCEPT !.stage = "waiting", !.awaiting = Range(PendingWritesOf(repoId)),
                            !.manifest = transferManifests[repoKey]]

\* ---- markTransferComplete: suspended in waitForPendingWrites, then the
\* resolver of the repository (if any) is called
MarkEnter(repoId) ==
  [IdleCall EXCEPT !.stage = "waiting", !.awaiting = Range(PendingWritesOf(repoId))]

RunOnMark(call) ==
  IF call.stage # "waiting" \/ PromiseAll(call.awaiting) = "pending" THEN call
  ELSE IF PromiseAll(call.awaiting) = "rejected" THEN ThrewCall
  ELSE [IdleCall EXCEPT !.stage = "returned"]

ResumeMarks(waiting) == [id \in DOMAIN waiting |-> RunOnMark(waiting[id])]

\* the calls that get past their await in this step
MarksThrough(before, after) ==
  {id \in DOMAIN before : before[id].stage # "returned" /\ after[id].stage = "returned"}

\* resolver(): the completion promise of each of the repositories, if it
\* has one, is resolved
ResolveSignals(promises, ids) ==
  [k \in DOMAIN promises |->
     IF \E id \in ids : getRepoKey(id) = k THEN "resolved" ELSE promises[k]]

\* ---- waitForTransferComplete: returns at once without a promise, or
\* when the promise it awaits is resolved
WaitEnter(repoId) ==
  LET repoKey == getRepoKey(repoId)
  IN  IF ~MapHas(transferCompletePromises, repoKey) THEN "returned"
      ELSE IF transferCompletePromises[repoKey] = "resolved" THEN "returned"
      ELSE "waiting"

\* the waiting calls whose promise has been resolved return
WaitersOn(waiters, promises) ==
  [id \in DOMAIN waiters |->
     IF /\ waiters[id] = "waiting"
        /\ MapHas(promises, getRepoKey(id))
        /\ promises[getRepoKey(id)] = "resolved"
       THEN "returned" ELSE waiters[id]]

\* the promise of repoKey is dropped from the map, or replaced, unresolved:
\* a call that awaits it waits for ever
Orphaned(waiters, repoKeys) ==
  [id \in DOMAIN waiters |->
     IF waiters[id] = "waiting" /\ getRepoKey(id) \in repoKeys THEN "orphaned"
     ELSE waiters[id]]

\* ---- initializeRepo.  The mkdir of ensureDir and the assignments that
\* follow its await are taken as one step.
initializeRepo(repoId) ==
  LET repoKey == getRepoKey(repoId)
      made == ensureDir(fs, getRepoPath(repoId))
  IN  /\ calls < MaxCalls
      /\ calls' = calls + 1
      /\ fs' = made.fs
      /\ IF made.ok
            THEN /\ currentTransfers' = MapSet(currentTransfers, repoKey, EmptyMap)
                 /\ pendingWrites' = MapSet(pendingWrites, repoKey, <<>>)
                 /\ transferCompletePromises' = MapSet(transferCompletePromises, repoKey, "pending")
                 /\ waitCalls' = Orphaned(waitCalls, {repoKey})
            ELSE UNCHANGED <<currentTransfers, pendingWrites, transferCompletePromises,
                             waitCalls>>
      /\ UNCHANGED <<transferManifests, transferObjs, writePromises, verifyCalls, markCalls>>
      /\ UNCHANGED <<senderVars, infoVars, bridgeVars>>

\* ---- setTransferManifest
\* transfers that survive the call
KeptTransfers(repoKey) ==
  IF MapHas(currentTransfers, repoKey) THEN currentTransfers
  ELSE MapSet(currentTransfers, repoKey, EmptyMap)

\* line 119: the transfers of the repository after the call
ClearedTransfers(repoKey) == MapSet(currentTransfers, repoKey, EmptyMap)

setTransferManifest(manifest, repoId) ==
  LET repoKey == getRepoKey(repoId)
  IN  /\ calls < MaxCalls
      /\ calls' = calls + 1
      /\ transferManifests' = MapSet(transferManifests, repoKey, manifest)
      /\ currentTransfers' = ClearedTransfers(repoKey)
      /\ UNCHANGED <<fs, transferObjs, pendingWrites, writePromises,
                     transferCompletePromises, verifyCalls, signalVars>>
      /\ UNCHANGED <<senderVars, infoVars, bridgeVars>>

\* ---- receiveChunk
\* a chunk arrival that puts a finished transfer back to receiving
RecordChunkReopens(transfer, chunk) ==
  [transfer EXCEPT !.chunks = ChunksSet(@, chunk.index, chunk.data),
                   !.receivedChunks = @ + 1,
                   !.isComplete = FALSE]

\* a chunk arrival that counts an index only once
RecordChunkOnce(transfer, chunk) ==
  [transfer EXCEPT !.chunks = ChunksSet(@, chunk.index, chunk.data),
                   !.receivedChunks = IF chunk.index \in ChunkIndices(transfer.chunks)
                                        THEN @ ELSE @ + 1]

\* lines 290-291: chunks.set(index, data); receivedChunks++
RecordChunk(transfer, chunk) ==
  [transfer EXCEPT !.chunks = ChunksSet(@, chunk.index, chunk.data),
                   !.receivedChunks = @ + 1]

\* a check that fires one chunk late
AllChunksReceivedLate(transfer) == transfer.receivedChunks = transfer.totalChunks + 1

\* a check that also fires on every chunk after the last
AllChunksReceivedOrMore(transfer) == transfer.receivedChunks >= transfer.totalChunks

\* line 294: the file is taken to be fully received
AllChunksReceived(transfer) == transfer.receivedChunks = transfer.totalChunks

receiveChunk(chunk, repoId) ==
  LET repoKey == getRepoKey(repoId)
      transfers == IF MapHas(currentTransfers, repoKey) THEN currentTransfers[repoKey]
                   ELSE EmptyMap
      existing == MapHas(transfers, chunk.path)
      ref == IF existing THEN transfers[chunk.path] ELSE Len(transferObjs) + 1
      transfer == RecordChunk(IF existing THEN transferObjs[ref] ELSE NewFileTransfer(chunk),
                              chunk)
  IN  /\ calls < MaxCalls
      /\ calls' = calls + 1
      /\ transferObjs' = IF existing THEN [transferObjs EXCEPT ![ref] = transfer]
                         ELSE Append(transferObjs, transfer)
      /\ currentTransfers' = MapSet(currentTransfers, repoKey, MapSet(transfers, chunk.path, ref))
      /\ IF AllChunksReceived(transfer)
            THEN /\ writePromises' = Append(writePromises,
                       [repoId |-> repoId, path |-> chunk.path, transfer |-> ref,
                        state |-> "started", fileData |-> <<>>])
                 /\ pendingWrites' = MapSet(pendingWrites, repoKey,
                                            Append(PendingWritesOf(repoId), Len(writePromises) + 1))
            ELSE UNCHANGED <<writePromises, pendingWrites>>
      /\ UNCHANGED <<fs, transferManifests, transferCompletePromises, verifyCalls, signalVars>>
      /\ UNCHANGED <<senderVars, infoVars, bridgeVars>>

\* ---- writeFile, first part: ensureDir returns and the chunks are combined
\* (lines 336-351); fs.promises.writeFile is then issued with that buffer.
\* A failed ensureDir rejects the write promise, and a verifyTransfer call
\* that awaits it runs on in the same turn of the event loop.
WriteFileAssemble(w) ==
  LET wp == writePromises[w]
      normalizedPath == normalizeRepoPath(wp.path, wp.repoId)
      made == ensureDir(fs, DirName(normalizedPath))
  IN  /\ wp.state = "started"
      /\ fs' = made.fs
      /\ writePromises' =
           [writePromises EXCEPT ![w] =
              IF made.ok
                THEN [@ EXCEPT !.state = "writing",
                               !.fileData = AssembleFile(transferObjs[wp.transfer].chunks)]
                ELSE [@ EXCEPT !.state = "rejected"]]
      /\ UNCHANGED <<transferManifests, currentTransfers, transferObjs, pendingWrites, calls>>
      /\ UNCHANGED <<senderVars, infoVars, bridgeVars>>
      /\ \E waiting \in {verifyCalls} : verifyCalls' = ResumeCalls(waiting)'
      /\ \E waiting \in {markCalls} : markCalls' = ResumeMarks(waiting)'
      /\ transferCompletePromises' =
           ResolveSignals(transferCompletePromises, MarksThrough(markCalls, markCalls'))
      /\ waitCalls' = WaitersOn(waitCalls, transferCompletePromises')

\* ---- writeFile, second part: fs.promises.writeFile settles, and with it the
\* promise receiveChunk chained on it (.then sets isComplete, .catch rethrows);
\* a verifyTransfer call that awaits it runs on in the same turn.
\* ioFails is a failure of the filesystem itself (quota, backend error).
WriteFileSettle(w, ioFails) ==
  LET wp == writePromises[w]
      q == FsPath(normalizeRepoPath(wp.path, wp.repoId))
      written == IF q.ok THEN FsWriteFile(fs, q.path, wp.fileData)
                 ELSE [err |-> "EINVAL", fs |-> fs]
      ok == written.err = "" /\ ~ioFails
  IN  /\ wp.state = "writing"
      /\ fs' = IF ok THEN written.fs ELSE fs
      /\ writePromises' = [writePromises EXCEPT ![w].state = IF ok THEN "fulfilled" ELSE "rejected"]
      /\ transferObjs' = IF ok THEN [transferObjs EXCEPT ![wp.transfer].isComplete = TRUE]
                         ELSE transferObjs
      /\ UNCHANGED <<transferManifests, currentTransfers, pendingWrites, calls>>
      /\ UNCHANGED <<senderVars, infoVars, bridgeVars>>
      /\ \E waiting \in {verifyCalls} : verifyCalls' = ResumeCalls(waiting)'
      /\ \E waiting \in {markCalls} : markCalls' = ResumeMarks(waiting)'
      /\ transferCompletePromises' =
           ResolveSignals(transferCompletePromises, MarksThrough(markCalls, markCalls'))
      /\ waitCalls' = WaitersOn(waitCalls, transferCompletePromises')

\* ---- verifyTransfer is called.  With nothing left to wait for it runs to
\* its result at once; otherwise it stays suspended until a write settles.
\* The checks of the manifested files (lines 215-234) are taken as one step.
verifyTransfer(repoId) ==
  /\ verifyCalls[repoId].stage # "waiting"
  /\ verifyCalls' = [verifyCalls EXCEPT ![repoId] = RunOn(verifyTransferEnter(repoId), repoId)]
  /\ UNCHANGED <<fs, transferManifests, currentTransfers, transferObjs, pendingWrites,
                 writePromises, transferCompletePromises, signalVars, calls>>
  /\ UNCHANGED <<senderVars, infoVars, bridgeVars>>

\* ---- markTransferComplete is called.  With nothing left to wait for it
\* resolves the completion promise at once; otherwise it stays suspended
\* until a write settles.
markTransferComplete(repoId) ==
  /\ markCalls[repoId].stage # "waiting"
  /\ calls < MaxCalls
  /\ calls' = calls + 1
  /\ markCalls' = [markCalls EXCEPT ![repoId] = RunOnMark(MarkEnter(repoId))]
  /\ transferCompletePromises' =
       ResolveSignals(transferCompletePromises,
                      IF markCalls'[repoId].stage = "returned" THEN {repoId} ELSE {})
  /\ waitCalls' = WaitersOn(waitCalls, transferCompletePromises')
  /\ UNCHANGED <<fs, transferManifests, currentTransfers, transferObjs, pendingWrites,
                 writePromises, verifyCalls>>
  /\ UNCHANGED <<senderVars, infoVars, bridgeVars>>

\* a receiver that takes the marker at its word: every FileTransfer of the
\* repository is flagged complete
handleTransferCompleteTrusting(completion, repoId) ==
  LET repoKey == getRepoKey(repoId)
      refs == IF MapHas(currentTransfers, repoKey)
              THEN {currentTransfers[repoKey][p] : p \in DOMAIN currentTransfers[repoKey]}
              ELSE {}
  IN  /\ completion.complete
      /\ refs # {}
      /\ calls < MaxCalls
      /\ calls' = calls + 1
      /\ transferObjs' = [t \in DOMAIN transferObjs |->
                            IF t \in refs THEN [transferObjs[t] EXCEPT !.isComplete = TRUE]
                            ELSE transferObjs[t]]
      /\ UNCHANGED <<fs, transferManifests, currentTransfers, pendingWrites,
                     writePromises, transferCompletePromises, verifyCalls, signalVars>>
      /\ UNCHANGED <<senderVars, infoVars, bridgeVars>>

\* ---- handleTransferComplete: the completion marker of the sender arrives;
\* markTransferComplete is started and not awaited
handleTransferComplete(completion, repoId) ==
  /\ completion.complete
  /\ markTransferComplete(repoId)

\* ---- waitForTransferComplete is called
waitForTransferComplete(repoId) ==
  /\ waitCalls[repoId] # "waiting"
  /\ waitCalls' = [waitCalls EXCEPT ![repoId] = WaitEnter(repoId)]
  /\ UNCHANGED <<fs, transferManifests, currentTransfers, transferObjs, pendingWrites,
                 writePromises, transferCompletePromises, verifyCalls, markCalls, calls>>
  /\ UNCHANGED <<senderVars, infoVars, bridgeVars>>

\* ---- deleteRepository.  The eviction and the recursive delete that follows
\* are taken as one step; readdir of a missing root makes the call throw
\* after the eviction.
deleteRepository(repoId) ==
  LET repoKey == getRepoKey(repoId)
      root == FsPath(getRepoPath(repoId)).path
  IN  /\ calls < MaxCalls
      /\ calls' = calls + 1
      /\ currentTransfers' = MapDelete(currentTransfers, repoKey)
      /\ transferManifests' = MapDelete(transferManifests, repoKey)
      /\ pendingWrites' = MapDelete(pendingWrites, repoKey)
      /\ transferCompletePromises' = MapDelete(transferCompletePromises, repoKey)
      /\ fs' = IF root \in DOMAIN fs THEN FsRemoveTree(fs, root) ELSE fs
      /\ waitCalls' = Orphaned(waitCalls, {repoKey})
      /\ UNCHANGED <<transferObjs, writePromises, verifyCalls, markCalls>>
      /\ UNCHANGED <<senderVars, infoVars, bridgeVars>>

\* ---- listRepositories: the entries of '/' that match /^([^:]+):(.+)$/
MatchesRepoPattern(name) ==
  \E i \in 2..(Len(name) - 1) : name[i] = ":" /\ \A j \in 1..(i - 1) : name[j] # ":"

listRepositories(f) == {q \in DOMAIN f : Len(q) = 1 /\ MatchesRepoPattern(q[1])}

RECURSIVE RemoveTrees(_, _)
RemoveTrees(f, roots) ==
  IF roots = {} THEN f
  ELSE LET root == CHOOSE q \in roots : TRUE
       IN  RemoveTrees(FsRemoveTree(f, root), roots \ {root})

\* Map.prototype.delete for each of the keys
MapDeleteAll(m, keys) == [x \in DOMAIN m \ keys |-> m[x]]

\* the repoKey of a listed repository: match[1] + ':' + match[2] is the
\* name of its directory again
ListedKeys(roots) == {q[1] : q \in roots}

\* init with all deletions successful (lines 585-597): deleteRepository for
\* every listed repository, then every tracking map is cleared
InitCleared ==
  /\ fs' = RemoveTrees(fs, listRepositories(fs))
  /\ currentTransfers' = EmptyMap
  /\ transferManifests' = EmptyMap
  /\ pendingWrites' = EmptyMap
  /\ transferCompletePromises' = EmptyMap
  /\ waitCalls' = Orphaned(waitCalls, DOMAIN transferCompletePromises)

\* init where the deleteDirectory of one repository fails (a failure of the
\* filesystem): the repositories listed before it (done) are deleted,
\* deleteRepository has evicted the tracking entries of those and of the
\* failing one, and the catch of lines 598-600 ends the call
InitInterrupted(failed, done) ==
  LET keys == ListedKeys(done \cup {failed})
  IN  /\ fs' = RemoveTrees(fs, done)
      /\ currentTransfers' = MapDeleteAll(currentTransfers, keys)
      /\ transferManifests' = MapDeleteAll(transferManifests, keys)
      /\ pendingWrites' = MapDeleteAll(pendingWrites, keys)
      /\ transferCompletePromises' = MapDeleteAll(transferCompletePromises, keys)
      /\ waitCalls' = Orphaned(waitCalls, keys)

\* ---- init, taken as one step; it resolves in either case
init ==
  /\ calls < MaxCalls
  /\ calls' = calls + 1
  /\ \/ InitCleared
     \/ \E failed \in listRepositories(fs) :
          \E done \in SUBSET (listRepositories(fs) \ {failed}) : InitInterrupted(failed, done)
  /\ UNCHANGED <<transferObjs, writePromises, verifyCalls, markCalls>>
  /\ UNCHANGED <<senderVars, infoVars, bridgeVars>>

ReceiverNext ==
  \/ \E id \in RepoIds : initializeRepo(id)
  \/ \E id \in RepoIds, m \in Manifests : setTransferManifest(m, id)
  \/ \E id \in RepoIds, c \in FileChunks : receiveChunk(c, id)
  \/ \E w \in 1..Len(writePromises) : WriteFileAssemble(w)
  \/ \E w \in 1..Len(writePromises), ioFails \in BOOLEAN : WriteFileSettle(w, ioFails)
  \/ \E id \in RepoIds : verifyTransfer(id)
  \/ \E id \in RepoIds : deleteRepository(id)
  \/ init

\* ---- the receiver alone.  Init is the bridge after construction, with an
\* empty filesystem; the sender takes no step.
Init ==
  /\ fs = EmptyFs
  /\ transferManifests = EmptyMap
  /\ currentTransfers = EmptyMap
  /\ transferObjs = <<>>
  /\ pendingWrites = EmptyMap
  /\ writePromises = <<>>
  /\ transferCompletePromises = EmptyMap
  /\ verifyCalls = [id \in RepoIds |-> IdleCall]
  /\ markCalls = [id \in RepoIds |-> IdleCall]
  /\ waitCalls = [id \in RepoIds |-> "idle"]
  /\ calls = 0
  /\ repo = [rootKind |-> "missing", gitKind |-> "missing", readable |-> FALSE,
             listFails |-> FALSE, sep |-> "/", files |-> <<>>]
  /\ options = [chunkSize |-> 1, maxRepoSize |-> DefaultMaxRepoSize,
                excludePatterns |-> DefaultExcludePatterns, includeGitHistory |-> TRUE]
  /\ gen = [pc |-> "start", fileIdx |-> 0, chunkIndex |-> 0]
  /\ yielded = <<>>
  /\ getCalls = <<>>
  /\ activeProcesses = <<>>
  /\ children = <<>>
  /\ clock = 0
  /\ pendingRequests = <<>>
  /\ requests = <<>>
  /\ delivered = <<>>
  /\ legacy = LegacyNew
  /\ hostFs = (<<>> :> [type |-> "dir", data |-> <<>>, readable |-> FALSE])
               @@ (<< <<"r">> >> :> [type |-> "dir", data |-> <<>>, readable |-> FALSE])
  /\ writeFileCalls = <<>>

Next == ReceiverNext

Spec == Init /\ [][Next]_vars

\* ---- the application that owns the bridge holds the filesystem too
\* (getFileSystem) and may remove a file, put a directory in its place or
\* leave it unreadable
ExternalChange(q, kind) ==
  /\ q \in DOMAIN fs
  /\ fs[q].type = "file"
  /\ fs[q].readable
  /\ fs' = CASE kind = "unlink" -> MapDelete(fs, q)
             [] kind = "dir" -> [fs EXCEPT ![q] = DirNode]
             [] kind = "unreadable" -> [fs EXCEPT ![q].readable = FALSE]
  /\ UNCHANGED <<transferManifests, currentTransfers, transferObjs, pendingWrites,
                 writePromises, transferCompletePromises, verifyCalls, signalVars, calls>>
  /\ UNCHANGED <<senderVars, infoVars, bridgeVars>>

ExternalKinds == {"unlink", "dir", "unreadable"}

VerifyManifests == {[totalFiles |-> 2, files |-> <<PathA, PathB>>]}

\* ---- one transfer, verified while the application changes files
VerifyInit ==
  /\ fs = EmptyFs
  /\ transferManifests = EmptyMap
  /\ currentTransfers = EmptyMap
  /\ transferObjs = <<>>
  /\ pendingWrites = EmptyMap
  /\ writePromises = <<>>
  /\ transferCompletePromises = EmptyMap
  /\ verifyCalls = [id \in RepoIds |-> IdleCall]
  /\ markCalls = [id \in RepoIds |-> IdleCall]
  /\ waitCalls = [id \in RepoIds |-> "idle"]
  /\ calls = 0
  /\ repo = [rootKind |-> "missing", gitKind |-> "missing", readable |-> FALSE,
             listFails |-> FALSE, sep |-> "/", files |-> <<>>]
  /\ options = [chunkSize |-> 1, maxRepoSize |-> DefaultMaxRepoSize,
                excludePatterns |-> DefaultExcludePatterns, includeGitHistory |-> TRUE]
  /\ gen = [pc |-> "start", fileIdx |-> 0, chunkIndex |-> 0]
  /\ yielded = <<>>
  /\ getCalls = <<>>
  /\ activeProcesses = <<>>
  /\ children = <<>>
  /\ clock = 0
  /\ pendingRequests = <<>>
  /\ requests = <<>>
  /\ delivered = <<>>
  /\ legacy = LegacyNew
  /\ hostFs = (<<>> :> [type |-> "dir", data |-> <<>>, readable |-> FALSE])
               @@ (<< <<"r">> >> :> [type |-> "dir", data |-> <<>>, readable |-> FALSE])
  /\ writeFileCalls = <<>>

VerifyNext ==
  \/ \E id \in RepoIds, m \in VerifyManifests : setTransferManifest(m, id)
  \/ \E id \in RepoIds, c \in FileChunks : receiveChunk(c, id)
  \/ \E w \in 1..Len(writePromises) : WriteFileAssemble(w)
  \/ \E w \in 1..Len(writePromises), ioFails \in BOOLEAN : WriteFileSettle(w, ioFails)
  \/ \E id \in RepoIds : verifyTransfer(id)
  \/ \E q \in DOMAIN fs, kind \in ExternalKinds : ExternalChange(q, kind)

VerifySpec == VerifyInit /\ [][VerifyNext]_vars

\* ---- one repository, one single-chunk file, with the calls that deal with
\* the completion signal
SignalManifests == {[totalFiles |-> 1, files |-> <<PathA>>]}

SignalChunks == {c \in FileChunks : c.path = PathA}

SignalInit ==
  /\ fs = EmptyFs
  /\ transferManifests = EmptyMap
  /\ currentTransfers = EmptyMap
  /\ transferObjs = <<>>
  /\ pendingWrites = EmptyMap
  /\ writePromises = <<>>
  /\ transferCompletePromises = EmptyMap
  /\ verifyCalls = [id \in RepoIds |-> IdleCall]
  /\ markCalls = [id \in RepoIds |-> IdleCall]
  /\ waitCalls = [id \in RepoIds |-> "idle"]
  /\ calls = 0
  /\ repo = [rootKind |-> "missing", gitKind |-> "missing", readable |-> FALSE,
             listFails |-> FALSE, sep |-> "/", files |-> <<>>]
  /\ options = [chunkSize |-> 1, maxRepoSize |-> DefaultMaxRepoSize,
                excludePatterns |-> DefaultExcludePatterns, includeGitHistory |-> TRUE]
  /\ gen = [pc |-> "start", fileIdx |-> 0, chunkIndex |-> 0]
  /\ yielded = <<>>
  /\ getCalls = <<>>
  /\ activeProcesses = <<>>
  /\ children = <<>>
  /\ clock = 0
  /\ pendingRequests = <<>>
  /\ requests = <<>>
  /\ delivered = <<>>
  /\ legacy = LegacyNew
  /\ hostFs = (<<>> :> [type |-> "dir", data |-> <<>>, readable |-> FALSE])
               @@ (<< <<"r">> >> :> [type |-> "dir", data |-> <<>>, readable |-> FALSE])
  /\ writeFileCalls = <<>>

SignalNext ==
  \/ \E id \in RepoIds : initializeRepo(id)
  \/ \E id \in RepoIds, m \in SignalManifests : setTransferManifest(m, id)
  \/ \E id \in RepoIds, c \in SignalChunks : receiveChunk(c, id)
  \/ \E w \in 1..Len(writePromises) : WriteFileAssemble(w)
  \/ \E w \in 1..Len(writePromises), ioFails \in BOOLEAN : WriteFileSettle(w, ioFails)
  \/ \E id \in RepoIds : verifyTransfer(id)
  \/ \E id \in RepoIds : markTransferComplete(id)
  \/ \E id \in RepoIds : handleTransferComplete([complete |-> TRUE], id)
  \/ \E id \in RepoIds : waitForTransferComplete(id)

SignalSpec == SignalInit /\ [][SignalNext]_vars

\* ---- getRepository.  isomorphic-git is given the repository root as dir:
\* listBranches reads the names under .git/refs/heads, listRemotes the
\* remotes of .git/config, resolveRef the content of .git/HEAD; whatever
\* they throw is caught and turned into the empty result.
GitPath(root, segs) == root \o <<<<".git">>>> \o segs

FilesUnder(f, dir) == {q \in DOMAIN f : f[q].type = "file" /\ q # dir /\ IsPrefix(dir, q)}

getBranches(f, root) ==
  LET heads == GitPath(root, << <<"refs">>, <<"heads">> >>)
  IN  {SubSeq(q, Len(heads) + 1, Len(q)) : q \in FilesUnder(f, heads)}

getRemotes(f, root) ==
  LET config == GitPath(root, << <<"config">> >>)
  IN  IF config \in DOMAIN f /\ f[config].type = "file" THEN {f[config].data} ELSE {}

getHead(f, root) ==
  LET head == GitPath(root, << <<"HEAD">> >>)
  IN  IF head \in DOMAIN f /\ f[head].type = "file" /\ f[head].readable THEN f[head].data
      ELSE <<>>

\* getRepoSize, lines 465-485: the sizes of the files under the directory
RECURSIVE SumData(_, _)
SumData(f, qs) ==
  IF qs = {} THEN 0
  ELSE LET q == CHOOSE x \in qs : TRUE
       IN  Len(f[q].data) + SumData(f, qs \ {q})

BrowserRepoSize(f, root) == SumData(f, FilesUnder(f, root))

\* no stat of the repository root: the three reads and the size of a
\* missing repository all come out empty and the call returns
GetRepositoryOutcomeUnchecked(f, repoId) ==
  LET root == FsPath(getRepoPath(repoId))
  IN  [stage |-> "returned", error |-> "",
       info |-> [path |-> getRepoPath(repoId), size |-> 0, branches |-> {},
                 head |-> <<>>, remotes |-> {}]]

\* lines 373-412: [stage, error, info]
GetRepositoryOutcome(f, repoId) ==
  LET root == FsPath(getRepoPath(repoId))
  IN  IF ~root.ok \/ root.path \notin DOMAIN f
        THEN [stage |-> "threw", error |-> "REPOSITORY_NOT_FOUND",
              info |-> [path |-> <<>>, size |-> 0, branches |-> {}, head |-> <<>>,
                        remotes |-> {}]]
        ELSE [stage |-> "returned", error |-> "",
              info |-> [path |-> getRepoPath(repoId),
                        size |-> BrowserRepoSize(f, root.path),
                        branches |-> getBranches(f, root.path),
                        head |-> getHead(f, root.path),
                        remotes |-> getRemotes(f, root.path)]]

getRepository(repoId) ==
  /\ calls < MaxCalls
  /\ calls' = calls + 1
  /\ getCalls' = MapSet(getCalls, repoId, GetRepositoryOutcome(fs, repoId))
  /\ UNCHANGED <<fs, transferManifests, currentTransfers, transferObjs, pendingWrites,
                 writePromises, transferCompletePromises, verifyCalls, signalVars>>
  /\ UNCHANGED <<senderVars, bridgeVars>>

\* ---- a repository with and without VCS metadata, asked for its
\* information before it exists, while it is received and after deletion
PathGitHead == <<".git", "/", "HEAD">>
PathGitBranch == <<".git", "/", "refs", "/", "heads", "/", "main">>
InfoPaths == {PathA, PathGitHead, PathGitBranch}

InfoChunks ==
  {[path |-> p, index |-> 0, totalChunks |-> 1, data |-> ChunkData(p, 0)] : p \in InfoPaths}

InfoNext ==
  \/ \E id \in RepoIds : initializeRepo(id)
  \/ \E id \in RepoIds, c \in InfoChunks : receiveChunk(c, id)
  \/ \E w \in 1..Len(writePromises) : WriteFileAssemble(w)
  \/ \E w \in 1..Len(writePromises), ioFails \in BOOLEAN : WriteFileSettle(w, ioFails)
  \/ \E id \in RepoIds : deleteRepository(id)
  \/ \E id \in RepoIds : getRepository(id)

InfoSpec == Init /\ [][InfoNext]_vars

\* ======================================================================
\*                 THE PROXY OF THE EXTERNAL CLI
\* ======================================================================
MaxChildren == 3      \* how many commands a behaviour starts
MaxClock == 2         \* Date.now() ranges over 0..MaxClock

Commands == {"push", "pull"}

\* line 45: `${command}-${Date.now()}`
CommandId(command) == <<command, "-", clock>>

\* ---- executeCommand up to its await (lines 45-91): the child is spawned
\* and stored under its commandId
\* a call that has not settled: no event emitted, nothing returned
Unsettled == [kind |-> "pending", code |-> "", value |-> "none"]

\* wrapper: the method of the bridge the caller used ("none" for
\* executeCommand itself)
Spawn(command, wrapper) ==
  /\ Len(children) < MaxChildren
  /\ children' = Append(children, [command |-> command, commandId |-> CommandId(command),
                                    state |-> "running", wrapper |-> wrapper, how |-> "",
                                    events |-> <<>>, outcome |-> Unsettled,
                                    seen |-> Unsettled])
  /\ activeProcesses' = MapSet(activeProcesses, CommandId(command), Len(children) + 1)
  /\ UNCHANGED clock
  /\ UNCHANGED <<senderVars, receiverVars, infoVars, ipcVars, legacyVars, hostVars>>

executeCommand(command) == Spawn(command, "none")

\* ---- pull (lines 228-250) calls executeCommand('pull', ...) inside a try
pull == Spawn("pull", "pull")

\* how a child can end by itself, and the name of the error that execa
\* rejects with: the code tests error.name === 'TimeoutError' (line 116),
\* execa marks a timeout with error.timedOut and names the error as any
\* other failure
Endings == {"exit0", "nonzero", "timeout"}
ExecaErrorName == "ExecaError"
ErrorNames(how) == IF how = "timeout" THEN {"TimeoutError", ExecaErrorName} ELSE {ExecaErrorName}

\* lines 91-152: the events emitted and what the promise of executeCommand
\* settles with
CommandResult == [kind |-> "resolved", code |-> "", value |-> "GitnestrCommandResult"]

CommandError(code) == [kind |-> "rejected", code |-> code, value |-> "GitnestrError"]

SettleEvents(how, name) ==
  IF how = "exit0" THEN <<[type |-> "success", code |-> ""]>>
  ELSE IF name = "TimeoutError" THEN <<[type |-> "error", code |-> "TIMEOUT"]>>
  ELSE <<[type |-> "error", code |-> "COMMAND_FAILED"]>>

SettleOutcome(how, name) ==
  IF how = "exit0" THEN CommandResult
  ELSE IF name = "TimeoutError" THEN CommandError("TIMEOUT")
  ELSE CommandError("COMMAND_FAILED")

\* pull, lines 239-249: what the caller of pull gets
PullSeen(outcome) ==
  IF outcome.kind = "resolved"
    THEN [kind |-> "resolved", code |-> "", value |-> "{success: true, result}"]
    ELSE [kind |-> "resolved", code |-> "", value |-> "{success: false, error}"]

\* what the caller of the bridge method gets
Seen(wrapper, outcome) == IF wrapper = "pull" THEN PullSeen(outcome) ELSE outcome

\* ---- the child exits by itself: the await of line 91 settles and the
\* entry of its commandId is deleted (line 94 or 113)
ChildExits(c) ==
  /\ children[c].state = "running"
  /\ \E how \in Endings : \E name \in ErrorNames(how) :
       children' = [children EXCEPT ![c].state = "exited", ![c].how = how,
                                    ![c].events = SettleEvents(how, name),
                                    ![c].outcome = SettleOutcome(how, name),
                                    ![c].seen = Seen(children[c].wrapper,
                                                     SettleOutcome(how, name))]
  /\ activeProcesses' = MapDelete(activeProcesses, children[c].commandId)
  /\ UNCHANGED clock
  /\ UNCHANGED <<senderVars, receiverVars, infoVars, ipcVars, legacyVars, hostVars>>

\* ---- a killed child: the await rejects and the catch deletes the entry
\* of its commandId (line 113)
KilledSettles(c) ==
  /\ children[c].state = "killed"
  /\ children' = [children EXCEPT ![c].state = "reaped", ![c].how = "killed",
                                  ![c].events = SettleEvents("killed", ExecaErrorName),
                                  ![c].outcome = SettleOutcome("killed", ExecaErrorName),
                                  ![c].seen = Seen(children[c].wrapper,
                                                   SettleOutcome("killed", ExecaErrorName))]
  /\ activeProcesses' = MapDelete(activeProcesses, children[c].commandId)
  /\ UNCHANGED clock
  /\ UNCHANGED <<senderVars, receiverVars, infoVars, ipcVars, legacyVars, hostVars>>

\* ---- time passes
Tick ==
  /\ clock < MaxClock
  /\ clock' = clock + 1
  /\ UNCHANGED <<activeProcesses, children>>
  /\ UNCHANGED <<senderVars, receiverVars, infoVars, ipcVars, legacyVars, hostVars>>

\* the children that the entries of the map refer to
Referenced == {activeProcesses[id] : id \in DOMAIN activeProcesses}

\* ---- cancelAll: every entry of the map is killed and deleted
cancelAll ==
  /\ children' = [c \in DOMAIN children |->
                    IF c \in Referenced /\ children[c].state = "running"
                      THEN [children[c] EXCEPT !.state = "killed"]
                      ELSE children[c]]
  /\ activeProcesses' = EmptyMap
  /\ UNCHANGED clock
  /\ UNCHANGED <<senderVars, receiverVars, infoVars, ipcVars, legacyVars, hostVars>>

BridgeNext ==
  \/ \E command \in Commands : executeCommand(command)
  \/ pull
  \/ \E c \in 1..Len(children) : ChildExits(c)
  \/ \E c \in 1..Len(children) : KilledSettles(c)
  \/ Tick
  \/ cancelAll

BridgeSpec == Init /\ [][BridgeNext]_vars

\* ---- a repository that is deleted while it is being received
DeleteNext ==
  \/ \E id \in RepoIds : initializeRepo(id)
  \/ \E id \in RepoIds, m \in Manifests : setTransferManifest(m, id)
  \/ \E id \in RepoIds, c \in FileChunks : receiveChunk(c, id)
  \/ \E w \in 1..Len(writePromises) : WriteFileAssemble(w)
  \/ \E w \in 1..Len(writePromises), ioFails \in BOOLEAN : WriteFileSettle(w, ioFails)
  \/ \E id \in RepoIds : verifyTransfer(id)
  \/ \E id \in RepoIds : deleteRepository(id)

DeleteSpec == Init /\ [][DeleteNext]_vars

\* ---- several repositories side by side.  Two of the identifiers differ
\* only in where the ':' between owner and name falls; one chunk path climbs
\* out of the repository with "..", one uses a leading slash and a backslash.
RepoB == [ownerPubkey |-> <<"alice">>, repoName |-> <<"r2">>]
RepoColonInName == [ownerPubkey |-> <<"alice">>, repoName |-> <<"r1", ":", "x">>]
RepoColonInOwner == [ownerPubkey |-> <<"alice", ":", "r1">>, repoName |-> <<"x">>]
IsoRepoIds == {RepoB, RepoColonInName, RepoColonInOwner}

PathEscape == <<"..", "/", "alice", ":", "r2", "/", "a.txt">>
PathWindows == <<"/", "dir", "\\", "b.txt">>
IsoPaths == {PathA, PathEscape, PathWindows}

IsoChunks ==
  {[path |-> p, index |-> 0, totalChunks |-> 1, data |-> ChunkData(p, 0)] : p \in IsoPaths}

IsoManifests == {[totalFiles |-> 1, files |-> <<PathA>>]}

IsoInit ==
  /\ fs = EmptyFs
  /\ transferManifests = EmptyMap
  /\ currentTransfers = EmptyMap
  /\ transferObjs = <<>>
  /\ pendingWrites = EmptyMap
  /\ writePromises = <<>>
  /\ transferCompletePromises = EmptyMap
  /\ verifyCalls = [id \in IsoRepoIds |-> IdleCall]
  /\ markCalls = [id \in IsoRepoIds |-> IdleCall]
  /\ waitCalls = [id \in IsoRepoIds |-> "idle"]
  /\ calls = 0
  /\ repo = [rootKind |-> "missing", gitKind |-> "missing", readable |-> FALSE,
             listFails |-> FALSE, sep |-> "/", files |-> <<>>]
  /\ options = [chunkSize |-> 1, maxRepoSize |-> DefaultMaxRepoSize,
                excludePatterns |-> DefaultExcludePatterns, includeGitHistory |-> TRUE]
  /\ gen = [pc |-> "start", fileIdx |-> 0, chunkIndex |-> 0]
  /\ yielded = <<>>
  /\ getCalls = <<>>
  /\ activeProcesses = <<>>
  /\ children = <<>>
  /\ clock = 0
  /\ pendingRequests = <<>>
  /\ requests = <<>>
  /\ delivered = <<>>
  /\ legacy = LegacyNew
  /\ hostFs = (<<>> :> [type |-> "dir", data |-> <<>>, readable |-> FALSE])
               @@ (<< <<"r">> >> :> [type |-> "dir", data |-> <<>>, readable |-> FALSE])
  /\ writeFileCalls = <<>>

IsoNext ==
  \/ \E id \in IsoRepoIds, m \in IsoManifests :
       calls < IsoMaxCalls /\ setTransferManifest(m, id)
  \/ \E id \in IsoRepoIds, c \in IsoChunks :
       calls < IsoMaxCalls /\ receiveChunk(c, id)
  \/ \E w \in 1..Len(writePromises) : WriteFileAssemble(w)
  \/ \E w \in 1..Len(writePromises), ioFails \in BOOLEAN : WriteFileSettle(w, ioFails)
  \/ \E id \in IsoRepoIds : calls < IsoMaxCalls /\ markTransferComplete(id)

IsoSpec == IsoInit /\ [][IsoNext]_vars

\* ---- the sender alone: one GitBridge over any of the repositories, its
\* generator not yet started; the receiver takes no step.
SenderInit ==
  /\ repo \in Repositories
  /\ options \in [chunkSize : 1..MaxChunkSize, maxRepoSize : {SmallMaxRepoSize, DefaultMaxRepoSize},
                  excludePatterns : {DefaultExcludePatterns}, includeGitHistory : {TRUE}]
  /\ gen = [pc |-> "start", fileIdx |-> 0, chunkIndex |-> 0]
  /\ yielded = <<>>
  /\ getCalls = <<>>
  /\ activeProcesses = <<>>
  /\ children = <<>>
  /\ clock = 0
  /\ pendingRequests = <<>>
  /\ requests = <<>>
  /\ delivered = <<>>
  /\ legacy = LegacyNew
  /\ hostFs = (<<>> :> [type |-> "dir", data |-> <<>>, readable |-> FALSE])
               @@ (<< <<"r">> >> :> [type |-> "dir", data |-> <<>>, readable |-> FALSE])
  /\ writeFileCalls = <<>>
  /\ fs = EmptyFs
  /\ transferManifests = EmptyMap
  /\ currentTransfers = EmptyMap
  /\ transferObjs = <<>>
  /\ pendingWrites = EmptyMap
  /\ writePromises = <<>>
  /\ transferCompletePromises = EmptyMap
  /\ verifyCalls = [id \in RepoIds |-> IdleCall]
  /\ markCalls = [id \in RepoIds |-> IdleCall]
  /\ waitCalls = [id \in RepoIds |-> "idle"]
  /\ calls = 0

SenderNext == StreamStart \/ StreamNext \/ StreamIOError \/ StreamReturn

SenderSpec == SenderInit /\ [][SenderNext]_vars

\* ---- a repository with a nested directory, VCS metadata and a
\* node_modules directory, streamed under every option the walk could read
WalkTree == << <<"a.txt">>, <<"dir", "b.txt">>, <<"dir", "sub", "c.txt">>,
               <<".git", "HEAD">>, <<"node_modules", "x.js">> >>

RECURSIVE WalkListings(_)
\* every listing of files f..Len(WalkTree) in walk order, one byte each
WalkListings(f) ==
  IF f > Len(WalkTree) THEN {<<>>}
  ELSE LET rest == WalkListings(f + 1)
       IN  rest \cup {<<[segs |-> WalkTree[f], bytes |-> FileBytes(f, 1)]>> \o l : l \in rest}

WalkRepositories ==
  [rootKind : {"dir"}, gitKind : {"dir"}, readable : {TRUE}, listFails : {FALSE},
   sep : {"/", "\\"}, files : WalkListings(1)]

WalkPatterns ==
  {<<>>, DefaultExcludePatterns,
   << <<"dir", "/", "**">> >>, << <<"dir", "/", "*">> >>, << <<"**">> >>, << <<"*">> >>,
   << <<".git", "/", "**">> >>, << <<"a.txt">> >>,
   << <<"dir", "/", "**">>, <<"a.txt">> >>}

WalkInit ==
  /\ repo \in WalkRepositories
  /\ options \in [chunkSize : {1}, maxRepoSize : {SmallMaxRepoSize, DefaultMaxRepoSize},
                  excludePatterns : WalkPatterns, includeGitHistory : BOOLEAN]
  /\ gen = [pc |-> "start", fileIdx |-> 0, chunkIndex |-> 0]
  /\ yielded = <<>>
  /\ getCalls = <<>>
  /\ activeProcesses = <<>>
  /\ children = <<>>
  /\ clock = 0
  /\ pendingRequests = <<>>
  /\ requests = <<>>
  /\ delivered = <<>>
  /\ legacy = LegacyNew
  /\ hostFs = (<<>> :> [type |-> "dir", data |-> <<>>, readable |-> FALSE])
               @@ (<< <<"r">> >> :> [type |-> "dir", data |-> <<>>, readable |-> FALSE])
  /\ writeFileCalls = <<>>
  /\ fs = EmptyFs
  /\ transferManifests = EmptyMap
  /\ currentTransfers = EmptyMap
  /\ transferObjs = <<>>
  /\ pendingWrites = EmptyMap
  /\ writePromises = <<>>
  /\ transferCompletePromises = EmptyMap
  /\ verifyCalls = [id \in RepoIds |-> IdleCall]
  /\ markCalls = [id \in RepoIds |-> IdleCall]
  /\ waitCalls = [id \in RepoIds |-> "idle"]
  /\ calls = 0

WalkNext == StreamStart \/ StreamNext \/ StreamIOError \/ StreamReturn

WalkSpec == WalkInit /\ [][WalkNext]_vars

\* ======================================================================
\*                     PROPERTIES OF THE SENDER
\* ======================================================================
\* the stream went past validation and listing, and has not failed
Streaming == gen.pc \in {"manifest", "chunk", "complete", "done"}

\* the stream has yielded everything it will yield
Streamed == gen.pc \in {"complete", "done"}

IsChunk(e) == e.kind = "chunk"

\* the chunk elements yielded for one path, in the order of the stream
ChunksOf(p) == SelectSeq(yielded, LAMBDA e : IsChunk(e) /\ e.path = p)

\* the paths that appeared in chunk elements
ChunkPathsSeen == {yielded[i].path : i \in {j \in 1..Len(yielded) : IsChunk(yielded[j])}}

\* the position of a path in the manifest yielded first (0 when absent)
ManifestPosition(p) ==
  LET files == yielded[1].files
  IN  IF \E i \in 1..Len(files) : files[i] = p
        THEN CHOOSE i \in 1..Len(files) : files[i] = p
        ELSE 0

\* ceil(size / chunkSize), stated without the division the code uses
CeilDiv(size, chunkSize) ==
  CHOOSE n \in 0..size : n * chunkSize >= size /\ (n = 0 \/ (n - 1) * chunkSize < size)

RECURSIVE ReceivedMap(_)
\* the chunks Map a receiver holds after the given chunk elements arrived
ReceivedMap(cs) ==
  IF cs = <<>> THEN <<>>
  ELSE ChunksSet(ReceivedMap(SubSeq(cs, 1, Len(cs) - 1)), cs[Len(cs)].index, cs[Len(cs)].data)

C4_RoundTrip ==
  Streamed =>
    \A f \in 1..Len(repo.files) :
      AssembleFile(ReceivedMap(ChunksOf(ListFiles(repo)[f]))) = repo.files[f].bytes

\* C4 witness: a drained stream of a repository with a file longer than a
\* chunk whose size is no multiple of the chunk size, and with an empty file
C4_Witness ==
  /\ gen.pc = "done"
  /\ \E f \in 1..Len(repo.files) :
       /\ Len(repo.files[f].bytes) > options.chunkSize
       /\ Len(repo.files[f].bytes) % options.chunkSize # 0
  /\ \E f \in 1..Len(repo.files) : Len(repo.files[f].bytes) = 0

\* C5 (as claimed): a zero-byte file of the manifest gets exactly one chunk,
\* with index 0, totalChunks 1 and no data.
C5_ZeroByteFileOneChunk ==
  Streamed =>
    \A f \in 1..Len(repo.files) :
      Len(repo.files[f].bytes) = 0 =>
        ChunksOf(ListFiles(repo)[f]) =
          << [kind |-> "chunk", path |-> ListFiles(repo)[f], index |-> 0, totalChunks |-> 1,
              data |-> <<>>] >>

\* C6 (as claimed): once the stream is drained the paths seen in chunk
\* elements are exactly the files of the manifest.
C6_ManifestCompleteness ==
  gen.pc = "done" => ChunkPathsSeen = Range(yielded[1].files)

\* C7: all chunks of a path carry totalChunks = ceil(fileSize / chunkSize),
\* as many chunks are emitted, their indices are 0..totalChunks-1, and every
\* chunk but the last is chunkSize long.
C7_ChunkNumbering ==
  \A f \in 1..Len(repo.files) :
    LET cs == ChunksOf(ListFiles(repo)[f])
        n == CeilDiv(Len(repo.files[f].bytes), options.chunkSize)
    IN  /\ \A i \in 1..Len(cs) :
             /\ cs[i].totalChunks = n
             /\ cs[i].index = i - 1
             /\ i < n => Len(cs[i].data) = options.chunkSize
             /\ Len(cs[i].data) >= 1 /\ Len(cs[i].data) <= options.chunkSize
        /\ Len(cs) <= n
        /\ Streamed => Len(cs) = n

\* C7 witness: a drained stream with a second chunk of two that is shorter
\* than the chunk size
C7_Witness ==
  /\ gen.pc = "done"
  /\ \E i \in 1..Len(yielded) :
       /\ IsChunk(yielded[i])
       /\ yielded[i].index = 1
       /\ yielded[i].totalChunks = 2
       /\ Len(yielded[i].data) < options.chunkSize

\* ======================================================================
\*                    PROPERTIES OF THE RECEIVER
\* ======================================================================
ManifestSet(id) == MapHas(transferManifests, getRepoKey(id))

ManifestOf(id) == transferManifests[getRepoKey(id)]

\* the repository has a FileTransfer for the path
HasTransfer(id, p) ==
  /\ MapHas(currentTransfers, getRepoKey(id))
  /\ MapHas(currentTransfers[getRepoKey(id)], p)

TransferOf(id, p) == transferObjs[currentTransfers[getRepoKey(id)][p]]

\* the path is in state Complete
PathComplete(id, p) == HasTransfer(id, p) /\ TransferOf(id, p).isComplete

\* every chunk of the path arrived exactly once, in whatever order
DeliveredOnce(id, p) ==
  /\ HasTransfer(id, p)
  /\ TransferOf(id, p).totalChunks >= 1
  /\ ChunkIndices(TransferOf(id, p).chunks) = 0..(TransferOf(id, p).totalChunks - 1)
  /\ TransferOf(id, p).receivedChunks = TransferOf(id, p).totalChunks

\* every chunk of every manifested path arrived exactly once, and the
\* pending writes of the repository are over without a failure
CleanDelivery(id) ==
  /\ ManifestSet(id)
  /\ \A p \in Range(ManifestOf(id).files) : DeliveredOnce(id, p)
  /\ \A w \in Range(PendingWritesOf(id)) : writePromises[w].state = "fulfilled"

VerifySuccess == [success |-> TRUE, errors |-> <<>>]

\* the manifest read by the verifyTransfer call that acts in this step
CallManifest(id) ==
  IF verifyCalls[id].stage = "waiting" THEN verifyCalls[id].manifest ELSE ManifestOf(id)

\* C2: when every chunk of every manifested path was delivered exactly once,
\* in any interleaving, and the pending writes are over without a failure,
\* isTransferComplete(id) is true, a verifyTransfer call made now returns
\* { success: true, errors: [] }, and so does a call for this manifest that
\* returns in this step after waiting for the writes.
C2_CleanDeliveryVerifies ==
  [][\A id \in RepoIds :
       CleanDelivery(id)' =>
         /\ isTransferComplete(id)'
         /\ VerifyResult(ManifestOf(id), id)' = VerifySuccess
         /\ (/\ verifyCalls[id]' # verifyCalls[id]
             /\ verifyCalls[id]'.stage = "returned"
             /\ CallManifest(id) = ManifestOf(id)')
              => verifyCalls[id]'.result = VerifySuccess]_vars

\* C2 witness: both files of a two-file manifest delivered, the chunks of
\* dir/b.txt out of order, the writes over, and verifyTransfer has returned
\* success
C2_Witness ==
  /\ CleanDelivery(RepoA)
  /\ ManifestOf(RepoA).files = <<PathA, PathB>>
  /\ TransferOf(RepoA, PathB).chunks[1].index # 0
  /\ verifyCalls[RepoA] = ReturnedCall(VerifySuccess)

\* the file that delivery in ascending index order writes for a path
AscendingFile(p, totalChunks) == Concat([i \in 1..totalChunks |-> ChunkData(p, i - 1)])

\* the file of the path in the virtual filesystem is the given bytes
FileIs(id, p, bytes) ==
  LET q == FsPath(normalizeRepoPath(p, id)).path
  IN  q \in DOMAIN fs /\ fs[q] = FileNode(bytes)

\* C3: a file whose chunks arrived once each, in any permutation of the
\* indices, and whose write is over, holds the bytes that ascending delivery
\* writes (no other write of the path having been started).
C3_OrderIndependence ==
  \A id \in RepoIds, p \in ChunkPaths :
    (/\ DeliveredOnce(id, p)
     /\ PathComplete(id, p)
     /\ \A w \in 1..Len(writePromises) :
          (writePromises[w].repoId = id /\ writePromises[w].path = p)
            => writePromises[w].transfer = currentTransfers[getRepoKey(id)][p])
      => FileIs(id, p, AscendingFile(p, TransferOf(id, p).totalChunks))

\* C3 witness: dir/b.txt written from chunks that arrived in descending order
C3_Witness ==
  /\ DeliveredOnce(RepoA, PathB)
  /\ PathComplete(RepoA, PathB)
  /\ TransferOf(RepoA, PathB).chunks[1].index = TransferOf(RepoA, PathB).totalChunks - 1
  /\ FileIs(RepoA, PathB, AscendingFile(PathB, TransferOf(RepoA, PathB).totalChunks))

\* C8 (as claimed): isTransferComplete(id) is false unless every manifested
\* path has chunks at all the distinct indices 0..totalChunks-1.
C8_CompleteOnlyWithAllIndices ==
  \A id \in RepoIds :
    isTransferComplete(id) =>
      \A p \in Range(ManifestOf(id).files) :
        /\ HasTransfer(id, p)
        /\ ChunkIndices(TransferOf(id, p).chunks) = 0..(TransferOf(id, p).totalChunks - 1)

\* completion does not go back in this step
StaysComplete(id) ==
  /\ isTransferComplete(id) => isTransferComplete(id)'
  /\ \A p \in ChunkPaths : PathComplete(id, p) => PathComplete(id, p)'

\* C9 (as claimed): completion of the repository and of a path is permanent
\* over every step that is no setTransferManifest call for the repository.
C9_PermanentUnlessManifestSet ==
  [][\A id \in RepoIds :
       ~(\E m \in Manifests : setTransferManifest(m, id)) => StaysComplete(id)]_vars

\* a call that discards the per-path state of the repository
ResetStep(id) ==
  \/ \E m \in Manifests : setTransferManifest(m, id)
  \/ initializeRepo(id)
  \/ deleteRepository(id)
  \/ init

\* C9 (amended): completion of the repository and of a path is permanent over
\* every step that is no setTransferManifest, initializeRepo, deleteRepository
\* or init call for the repository.
C9_PermanentUnlessReset ==
  [][\A id \in RepoIds : ~ResetStep(id) => StaysComplete(id)]_vars

\* C9 witness: a complete transfer that received a further chunk of a
\* complete path and is still complete
C9_Witness ==
  /\ isTransferComplete(RepoA)
  /\ \E p \in Range(ManifestOf(RepoA).files) :
       TransferOf(RepoA, p).receivedChunks > TransferOf(RepoA, p).totalChunks

\* C10: isTransferComplete(id) is true exactly when a manifest is set for id
\* and every path of the manifest has a FileTransfer whose isComplete is true.
C10_IsTransferCompleteIff ==
  \A id \in RepoIds :
    isTransferComplete(id) <=>
      (ManifestSet(id) /\ \A p \in Range(ManifestOf(id).files) : PathComplete(id, p))

\* C10 witness: isTransferComplete is true for a manifest of two files, the
\* second of which took all its chunks to get there
C10_Witness ==
  /\ isTransferComplete(RepoA)
  /\ Len(ManifestOf(RepoA).files) = 2
  /\ TransferOf(RepoA, PathB).receivedChunks = TransferOf(RepoA, PathB).totalChunks

\* ======================================================================
\*              PROPERTIES OF SEVERAL REPOSITORIES AND OF PATHS
\* ======================================================================
\* a call made under the repository, or a step of a write it spawned
StepUnder(id) ==
  \/ \E c \in IsoChunks : receiveChunk(c, id)
  \/ \E m \in IsoManifests : setTransferManifest(m, id)
  \/ markTransferComplete(id)
  \/ \E w \in 1..Len(writePromises) :
       /\ writePromises[w].repoId = id
       /\ WriteFileAssemble(w) \/ \E ioFails \in BOOLEAN : WriteFileSettle(w, ioFails)

\* the root directory of the repository in the filesystem
RootOf(id) == FsPath(getRepoPath(id)).path

\* what the receiver holds for a repository: manifest, FileTransfers by path,
\* pending writes, and the files under its root
RepoState(id) ==
  LET repoKey == getRepoKey(id)
  IN  [manifest |-> IF MapHas(transferManifests, repoKey)
                      THEN <<transferManifests[repoKey]>> ELSE <<>>,
       transfers |-> IF MapHas(currentTransfers, repoKey)
                       THEN <<[p \in DOMAIN currentTransfers[repoKey] |->
                                 transferObjs[currentTransfers[repoKey][p]]]>>
                       ELSE <<>>,
       writes |-> IF MapHas(pendingWrites, repoKey) THEN <<pendingWrites[repoKey]>> ELSE <<>>,
       files |-> [q \in {x \in DOMAIN fs : IsPrefix(RootOf(id), x)} |-> fs[q]]]

\* C11 (as claimed): a receiveChunk, setTransferManifest or
\* markTransferComplete call under A, with the writes it spawns, leaves the
\* manifest, FileTransfers, pending writes and files of every other
\* repository B unchanged.
C11_RepositoryIsolation ==
  [][\A a \in IsoRepoIds, b \in IsoRepoIds :
       (a # b /\ StepUnder(a)) => RepoState(b)' = RepoState(b)]_vars

\* the nodes of the filesystem that this step created or changed
Touched == {q \in DOMAIN fs' : q \notin DOMAIN fs \/ fs'[q] # fs[q]}

\* C12 (as claimed): whatever the write of a file received under id creates
\* or changes lies inside the root of id, and the file itself is at the
\* chunk's relative path under that root.
C12_WritesStayInsideRoot ==
  [][\A w \in 1..Len(writePromises) :
       (WriteFileAssemble(w) \/ \E ioFails \in BOOLEAN : WriteFileSettle(w, ioFails))
         => \A q \in Touched :
              /\ IsPrefix(RootOf(writePromises[w].repoId), q)
              /\ fs'[q].type = "file" =>
                   q = RootOf(writePromises[w].repoId)
                         \o SplitPath(ReplaceToken(writePromises[w].path, "\\", "/"))]_vars

\* ======================================================================
\*                    PROPERTIES OF verifyTransfer
\* ======================================================================
\* a verifyTransfer call for the current manifest of id returns in this step
VerifyReturns(id) ==
  /\ verifyCalls[id]' # verifyCalls[id]
  /\ verifyCalls[id]'.stage = "returned"
  /\ ManifestSet(id)'
  /\ CallManifest(id) = ManifestOf(id)'

\* one manifested path was never sent; every other one was delivered,
\* written and is complete
OneMissing(id, missing) ==
  /\ ManifestSet(id)
  /\ missing \in Range(ManifestOf(id).files)
  /\ ~HasTransfer(id, missing)
  /\ \A p \in Range(ManifestOf(id).files) \ {missing} :
       DeliveredOnce(id, p) /\ PathComplete(id, p)
  /\ \A w \in Range(PendingWritesOf(id)) : writePromises[w].state = "fulfilled"

\* C13 (as claimed): with exactly one manifested path never sent and all
\* others received and written, verifyTransfer returns success false with
\* exactly one error, and that error names the missing path.
C13_OneMissingPathNamed ==
  [][\A id \in RepoIds, missing \in ChunkPaths :
       (OneMissing(id, missing)' /\ VerifyReturns(id)) =>
          /\ ~verifyCalls[id]'.result.success
          /\ Len(verifyCalls[id]'.result.errors) = 1
          /\ verifyCalls[id]'.result.errors[1].path = missing]_vars

\* what is wrong with the file of a manifested path: "" when nothing is
FileDefect(id, p) ==
  LET q == RootOf(id) \o SplitPath(p)
  IN  IF q \notin DOMAIN fs THEN "Failed to verify"
      ELSE IF fs[q].type # "file" THEN "exists but is not a file"
      ELSE IF ~fs[q].readable THEN "exists but cannot be read"
      ELSE ""

\* the errors a result holds for a path
ErrorsFor(result, p) == {i \in 1..Len(result.errors) : result.errors[i].path = p}

\* C14: when the transfer is complete verifyTransfer checks every manifested
\* path and returns exactly one error for each path that is missing, is no
\* regular file or cannot be read, none for the others, and success exactly
\* when there is no error.
C14_AllFailuresReported ==
  [][\A id \in RepoIds :
       (VerifyReturns(id) /\ isTransferComplete(id)') =>
          LET result == verifyCalls[id]'.result
          IN  /\ \A p \in Range(ManifestOf(id)'.files) :
                   /\ Cardinality(ErrorsFor(result, p)) =
                        IF FileDefect(id, p)' = "" THEN 0 ELSE 1
                   /\ \A i \in ErrorsFor(result, p) : result.errors[i].error = FileDefect(id, p)'
              /\ \A i \in 1..Len(result.errors) :
                   result.errors[i].path \in Range(ManifestOf(id)'.files)
              /\ result.success <=> (Len(result.errors) = 0)]_vars

\* C14 witness: the transfer is complete and verifyTransfer has returned two
\* errors, one for each manifested file
C14_Witness ==
  /\ isTransferComplete(RepoA)
  /\ verifyCalls[RepoA].stage = "returned"
  /\ Len(verifyCalls[RepoA].result.errors) = 2
  /\ verifyCalls[RepoA].result.errors[1].path # verifyCalls[RepoA].result.errors[2].path

\* ======================================================================
\*          PROPERTIES OF THE PENDING WRITES AND THE COMPLETION SIGNAL
\* ======================================================================
\* C15 (as claimed): a failed write leaves the FileTransfer not complete, and
\* what verifyTransfer or markTransferComplete then throws is a transfer
\* error (GitErrorCode.TRANSFER_ERROR).
C15_WriteFailureIsTransferError ==
  /\ \A w \in 1..Len(writePromises) :
       writePromises[w].state = "rejected" => ~transferObjs[writePromises[w].transfer].isComplete
  /\ \A id \in RepoIds :
       /\ verifyCalls[id].stage = "threw" => verifyCalls[id].error = "TRANSFER_ERROR"
       /\ markCalls[id].stage = "threw" => markCalls[id].error = "TRANSFER_ERROR"

\* a write spawned by receiveChunk on id has not settled
WriteInFlight(id) ==
  \E w \in 1..Len(writePromises) :
    writePromises[w].repoId = id /\ writePromises[w].state \in {"started", "writing"}

\* the completion signal of id is resolved by a markTransferComplete call in
\* this step
SignalResolves(id) ==
  /\ id \in MarksThrough(markCalls, markCalls')
  /\ MapHas(transferCompletePromises, getRepoKey(id))

\* C16 (as claimed): when verifyTransfer returns its result and when
\* markTransferComplete resolves the completion signal, no write spawned by
\* receiveChunk on id is in flight.
C16_Barrier ==
  [][\A id \in RepoIds :
       ((verifyCalls[id]' # verifyCalls[id] /\ verifyCalls[id]'.stage = "returned")
          \/ SignalResolves(id))
         => ~WriteInFlight(id)']_vars

\* every manifested path of id is complete
AllManifestedComplete(id) ==
  ManifestSet(id) => \A p \in Range(ManifestOf(id).files) : PathComplete(id, p)

\* a waitForTransferComplete call on the initialized repository returns in
\* this step
WaitReturns(id) ==
  /\ waitCalls[id] # "returned"
  /\ waitCalls[id]' = "returned"
  /\ MapHas(transferCompletePromises, getRepoKey(id))'

\* C17 (as claimed): the completion signal is resolved, and
\* waitForTransferComplete returns, only in a state where every manifested
\* path is complete.
C17_SignalOnlyWhenComplete ==
  [][\A id \in RepoIds :
       (SignalResolves(id) \/ WaitReturns(id)) => AllManifestedComplete(id)']_vars

\* C20 (as claimed): after setTransferManifest the pending-writes list of id
\* holds no earlier write and the completion signal is unresolved.
C20_ManifestRearms ==
  [][\A id \in RepoIds, m \in SignalManifests :
       setTransferManifest(m, id) =>
         /\ PendingWritesOf(id)' = <<>>
         /\ MapHas(transferCompletePromises, getRepoKey(id))' =>
              transferCompletePromises[getRepoKey(id)]' = "pending"]_vars

\* ======================================================================
\*                 PROPERTIES OF ONE FileTransfer
\* ======================================================================
\* the writes started for a FileTransfer object
WritesOf(t) == {w \in 1..Len(writePromises) : writePromises[w].transfer = t}

\* C18: for every FileTransfer the write of the assembled file is started at
\* most once, whatever chunks arrive after the last one.
C18_WriteStartedAtMostOnce ==
  \A t \in 1..Len(transferObjs) : Cardinality(WritesOf(t)) <= 1

\* C18 witness: a FileTransfer that took more chunks than totalChunks and
\* has one write
C18_Witness ==
  \E t \in 1..Len(transferObjs) :
    /\ transferObjs[t].receivedChunks > transferObjs[t].totalChunks
    /\ Cardinality(WritesOf(t)) = 1

\* the FileTransfer object the repository holds for a path, 0 if none
RefOf(id, p) == IF HasTransfer(id, p) THEN currentTransfers[getRepoKey(id)][p] ELSE 0

\* C19: setTransferManifest stores the manifest and leaves the repository
\* without FileTransfers, so that isTransferComplete is false for a non-empty
\* manifest; a FileTransfer that enters the repository afterwards is a new
\* object holding only the chunk that created it, and a path is complete
\* only through a write of the object the repository holds for it.
C19_ManifestDiscardsTransfers ==
  [][\A id \in RepoIds :
       /\ \A m \in Manifests :
            setTransferManifest(m, id) =>
              /\ ManifestOf(id)' = m
              /\ currentTransfers[getRepoKey(id)]' = EmptyMap
              /\ m.files # <<>> => ~isTransferComplete(id)'
       /\ \A p \in ChunkPaths :
            /\ (RefOf(id, p)' # 0 /\ RefOf(id, p)' # RefOf(id, p)) =>
                 /\ RefOf(id, p)' > Len(transferObjs)
                 /\ TransferOf(id, p)'.receivedChunks = 1
                 /\ Len(TransferOf(id, p)'.chunks) = 1
            /\ PathComplete(id, p)' =>
                 \E w \in WritesOf(RefOf(id, p))' : writePromises[w]'.state = "fulfilled"]_vars

\* C19 witness: a write started before the manifest was set has succeeded,
\* and the path it wrote is not complete in the new transfer
C19_Witness ==
  /\ ManifestSet(RepoA)
  /\ ManifestOf(RepoA).files # <<>>
  /\ ~isTransferComplete(RepoA)
  /\ \E w \in 1..Len(writePromises) :
       /\ writePromises[w].state = "fulfilled"
       /\ transferObjs[writePromises[w].transfer].isComplete
       /\ writePromises[w].path \in Range(ManifestOf(RepoA).files)
       /\ ~HasTransfer(RepoA, writePromises[w].path)

\* ======================================================================
\*                 THE COMPLETION MARKER OF THE SENDER
\* ======================================================================
\* C21: handleTransferComplete and markTransferComplete leave the manifest
\* and every FileTransfer of the repository as they are, so
\* isTransferComplete has the same value after the marker as before it.
C21_MarkerLeavesCompletion ==
  [][\A id \in RepoIds :
       (markTransferComplete(id) \/ handleTransferComplete([complete |-> TRUE], id)) =>
         /\ UNCHANGED <<transferManifests, currentTransfers, transferObjs>>
         /\ isTransferComplete(id)' = isTransferComplete(id)]_vars

\* C21 witness: the marker was handled and the completion promise resolved
\* while a manifested path is still not complete
C21_Witness ==
  /\ markCalls[RepoA].stage = "returned"
  /\ ManifestSet(RepoA)
  /\ ManifestOf(RepoA).files # <<>>
  /\ HasTransfer(RepoA, PathA)
  /\ ~isTransferComplete(RepoA)

\* ======================================================================
\*                 VALIDATION AND THE START OF THE STREAM
\* ======================================================================
\* the checks of validateRepo that the repository fails
FailingChecks(r, o) ==
  (IF r.rootKind # "dir" THEN {"path"} ELSE {})
    \cup (IF r.gitKind # "dir" THEN {"git"} ELSE {})
    \cup (IF GetRepoSize(r) > o.maxRepoSize THEN {"size"} ELSE {})
    \cup (IF ~r.readable THEN {"read"} ELSE {})

\* streamRepository has run validateRepo
Validated == gen.pc # "start"

\* C22 (as claimed): validateRepo does not throw for an invalid repository
\* and returns isValid = false with one error for each failing check.
C22_ValidateCollectsAll ==
  (Validated /\ FailingChecks(repo, options) # {}) =>
    LET v == ValidateRepo(repo, options)
    IN  /\ ~v.threw
        /\ ~v.isValid
        /\ Len(v.errors) = Cardinality(FailingChecks(repo, options))

\* C23 (as claimed): for a repository that fails a check of validateRepo,
\* streamRepository raises INVALID_REPOSITORY and yields nothing.
C23_InvalidRaisesBeforeYield ==
  (Validated /\ FailingChecks(repo, options) # {}) =>
    /\ gen.pc = "threw_INVALID_REPOSITORY"
    /\ yielded = <<>>

\* ======================================================================
\*                 WHICH FILES THE SENDER WALKS
\* ======================================================================
\* the paths of the manifest and of the chunks yielded so far
YieldedPaths ==
  UNION {IF yielded[i].kind = "manifest" THEN Range(yielded[i].files)
         ELSE IF IsChunk(yielded[i]) THEN {yielded[i].path} ELSE {} : i \in 1..Len(yielded)}

\* a relative path under the .git directory
UnderGit(p) == Len(p) >= 2 /\ p[1] = ".git" /\ p[2] = "/"

\* the files of the repository outside .git
RECURSIVE OutsideGit(_)
OutsideGit(files) ==
  IF files = <<>> THEN <<>>
  ELSE (IF Head(files).segs[1] = ".git" THEN <<>> ELSE <<Head(files)>>) \o OutsideGit(Tail(files))

\* C24 (as claimed): with includeGitHistory = false no path under .git is in
\* the manifest, in a chunk or in the repository size; with includeGitHistory
\* = true the listed paths under .git are in the manifest.
C24_GitHistoryOption ==
  Validated =>
    /\ ~options.includeGitHistory =>
         /\ \A p \in YieldedPaths : ~UnderGit(p)
         /\ GetRepoSize(repo) = SumSizes(OutsideGit(Listed(repo)))
    /\ (options.includeGitHistory /\ Streaming) =>
         \A i \in 1..Len(ListFiles(repo)) : ListFiles(repo)[i] \in Range(yielded[1].files)

\* what a glob pattern stands for, as the replacement table of
\* matchGlobPattern names it: "**" is any run of characters ('.*'), "*" a
\* run of characters without '/' ('[^/]*'), anything else itself
RECURSIVE GlobMatchFrom(_, _, _, _)
GlobMatchFrom(pattern, j, path, i) ==
  IF j > Len(pattern) THEN i > Len(path)
  ELSE IF pattern[j] = "**"
    THEN \E k \in i..(Len(path) + 1) : GlobMatchFrom(pattern, j + 1, path, k)
  ELSE IF pattern[j] = "*"
    THEN \/ GlobMatchFrom(pattern, j + 1, path, i)
         \/ i <= Len(path) /\ path[i] # "/" /\ GlobMatchFrom(pattern, j + 1, path, i + 1)
  ELSE i <= Len(path) /\ path[i] = pattern[j] /\ GlobMatchFrom(pattern, j + 1, path, i + 1)

\* the path matches one of the configured exclude patterns
GlobExcluded(p) ==
  \E k \in 1..Len(options.excludePatterns) :
    GlobMatchFrom(options.excludePatterns[k], 1, p, 1)

\* C25 (as claimed): no path that matches an exclude pattern is in the
\* manifest, in a chunk or among the files whose sizes getRepoSize adds up,
\* and the three are computed over the same files.
C25_ExcludedNeverStreamed ==
  Validated =>
    /\ \A p \in YieldedPaths : ~GlobExcluded(p)
    /\ \A i \in 1..Len(ListFiles(repo)) : ~GlobExcluded(ListFiles(repo)[i])
    /\ GetRepoSize(repo) = SumSizes(Listed(repo))
    /\ Streaming => yielded[1].files = ListFiles(repo) /\ ChunkPathsSeen \subseteq Range(ListFiles(repo))

\* ======================================================================
\*                 I/O ERRORS WHILE STREAMING
\* ======================================================================
\* the completion marker is among the yielded elements
MarkerYielded == \E i \in 1..Len(yielded) : yielded[i].kind = "complete"

\* every chunk of every listed file is among the yielded elements
AllChunksYielded ==
  \A f \in 1..Len(Listed(repo)) :
    Len(ChunksOf(ListFiles(repo)[f])) = CeilDiv(Len(Listed(repo)[f].bytes), options.chunkSize)

\* validateRepo returned isValid = true
ValidationPassed ==
  ~ValidateRepo(repo, options).threw /\ ValidateRepo(repo, options).isValid

repositoryExists(repoId) ==
  LET root == FsPath(getRepoPath(repoId))
  IN  root.ok /\ root.path \in DOMAIN fs

\* no tracking map holds an entry of the repository: the state that
\* deleteRepository leaves and that initializeRepo, setTransferManifest and
\* receiveChunk end
Evicted(id) ==
  LET repoKey == getRepoKey(id)
  IN  /\ ~MapHas(currentTransfers, repoKey)
      /\ ~MapHas(transferManifests, repoKey)
      /\ ~MapHas(pendingWrites, repoKey)
      /\ ~MapHas(transferCompletePromises, repoKey)

C28_InitClearsAll ==
  [][init =>
       /\ listRepositories(fs') = {}
       /\ currentTransfers' = EmptyMap
       /\ transferManifests' = EmptyMap
       /\ pendingWrites' = EmptyMap
       /\ transferCompletePromises' = EmptyMap]_vars

\* ======================================================================
\*                 REPOSITORY INFORMATION
\* ======================================================================
\* the repository has no .git entry
NoGitMetadata(id) ==
  LET root == FsPath(getRepoPath(id)).path
  IN  \A q \in DOMAIN fs : ~IsPrefix(root \o <<<<".git">>>>, q)

\* C29: getRepository on a repository whose root does not exist throws
\* REPOSITORY_NOT_FOUND and changes no state of the receiver; on an existing
\* repository without .git it returns with no branch, no remote and an
\* empty head.
C29_GetRepository ==
  [][\A id \in RepoIds :
       getRepository(id) =>
         /\ ~repositoryExists(id) =>
              /\ getCalls'[id].stage = "threw"
              /\ getCalls'[id].error = "REPOSITORY_NOT_FOUND"
              /\ UNCHANGED <<fs, transferManifests, currentTransfers, transferObjs,
                             pendingWrites, writePromises, transferCompletePromises>>
         /\ (repositoryExists(id) /\ NoGitMetadata(id)) =>
              /\ getCalls'[id].stage = "returned"
              /\ getCalls'[id].info.branches = {}
              /\ getCalls'[id].info.remotes = {}
              /\ getCalls'[id].info.head = <<>>]_vars

\* C29 witness: the repository was received, then deleted, and the
\* getRepository call after the deletion threw
C29_Witness ==
  /\ MapHas(getCalls, RepoA)
  /\ getCalls[RepoA].stage = "threw"
  /\ ~repositoryExists(RepoA)
  /\ \E w \in 1..Len(writePromises) : writePromises[w].state = "fulfilled"

\* ======================================================================
\*                 CANCELLING EXTERNAL COMMANDS
\* ======================================================================
\* the children started by executeCommand that have not exited
Running == {c \in 1..Len(children) : children[c].state = "running"}

\* C30 (as claimed): cancelAll kills every child that executeCommand started
\* and that has not exited, leaves activeProcesses empty and touches no
\* chunk-transfer state.
C30_CancelAllKillsAll ==
  [][cancelAll =>
       /\ \A c \in Running : children'[c].state = "killed"
       /\ activeProcesses' = EmptyMap
       /\ UNCHANGED receiverVars]_vars

\* ======================================================================
\*                 OUTCOMES OF EXTERNAL COMMANDS
\* ======================================================================
\* the executeCommand calls that have ended
Settled == {c \in 1..Len(children) : children[c].state \in {"exited", "reaped"}}

\* C31 (as claimed): an executeCommand call resolves after one 'success'
\* event, or rejects with TIMEOUT after a timeout of the subprocess, or
\* rejects with COMMAND_FAILED after any other failure, each rejection after
\* one 'error' event with that code; its entry is then out of
\* activeProcesses.
C31_ThreeOutcomes ==
  /\ [](\A c \in Settled :
          LET call == children[c]
              code == IF call.how = "timeout" THEN "TIMEOUT" ELSE "COMMAND_FAILED"
          IN  IF call.how = "exit0"
                THEN /\ call.outcome = CommandResult
                     /\ call.events = <<[type |-> "success", code |-> ""]>>
                ELSE /\ call.outcome = CommandError(code)
                     /\ call.events = <<[type |-> "error", code |-> code]>>)
  /\ [][\A c \in 1..Len(children) :
          (ChildExits(c) \/ KilledSettles(c)) =>
            children[c].commandId \notin DOMAIN activeProcesses']_vars

\* C32 (as claimed): pull rejects with a GitnestrError of code COMMAND_FAILED
\* or TIMEOUT when the command fails or times out, and resolves with the
\* GitnestrCommandResult when it succeeds.
C32_PullRejectsOnFailure ==
  \A c \in Settled :
    children[c].wrapper = "pull" =>
      IF children[c].how = "exit0"
        THEN children[c].seen = CommandResult
        ELSE /\ children[c].seen.kind = "rejected"
             /\ children[c].seen.code \in {"COMMAND_FAILED", "TIMEOUT"}

\* ------------------------------------------------------------------
\* BrowserGitnestrBridge: requests to the main process
\* ------------------------------------------------------------------

MaxRequests == 2
MaxMessages == 2

Methods == {"init"}

\* Math.random().toString(36).substr(2, 9)
Suffixes == {"k3x", "q9z"}

\* line 91: `${method}-${Date.now()}-${random}`
RequestId(method, suffix) == <<method, "-", clock, "-", suffix>>

IssuedIds == {requests[r].id : r \in DOMAIN requests}

\* an id that no request was sent with
UnknownId == <<"init", "-", 0, "-", "zzz">>

\* resolve(value) or reject(reason) of a promise: only the first call
\* settles it; settles counts the calls
Settle(req, outcome) ==
  [req EXCEPT !.promise = IF @.kind = "pending" THEN outcome ELSE @,
              !.settles = @ + 1]

Resolved(value) == [kind |-> "resolved", code |-> "", value |-> value]

Rejected(code, message) == [kind |-> "rejected", code |-> code, value |-> message]

\* ---- sendIPCRequest, lines 89-120. The random suffix of the id is taken
\* not to repeat an id of the same method and millisecond.
sendIPCRequest(method, suffix) ==
  /\ Len(requests) < MaxRequests
  /\ RequestId(method, suffix) \notin IssuedIds
  /\ requests' = Append(requests, [id |-> RequestId(method, suffix),
                                   method |-> method,
                                   promise |-> Unsettled,
                                   settles |-> 0,
                                   timer |-> "armed"])
  /\ pendingRequests' = MapSet(pendingRequests, RequestId(method, suffix),
                               Len(requests) + 1)
  /\ UNCHANGED delivered
  /\ UNCHANGED <<activeProcesses, children, clock>>
  /\ UNCHANGED <<senderVars, receiverVars, infoVars, legacyVars, hostVars>>

\* the messages of the window: events and responses
ErrorCodes == {"COMMAND_FAILED"}

Messages ==
  [type : {"event"}, id : {UnknownId}, error : {"none"}]
    \cup [type : {"response"}, id : IssuedIds \cup {UnknownId},
          error : {"none"} \cup ErrorCodes]

\* lines 71-81
ResponseOutcome(message) ==
  IF message.error # "none"
    THEN Rejected(message.error, "message.error.message")
    ELSE Resolved("message.result")

\* lines 57-83: the requests after the message
HandledRequests(message) ==
  IF message.type = "event" \/ ~MapHas(pendingRequests, message.id)
    THEN requests
    ELSE [requests EXCEPT ![pendingRequests[message.id]] =
            [Settle(@, ResponseOutcome(message)) EXCEPT !.timer = "cleared"]]

\* a handler that leaves the entry of the id in the map
handleIPCMessageKeeping(message) ==
  /\ Len(delivered) < MaxMessages
  /\ delivered' = Append(delivered, message)
  /\ requests' = HandledRequests(message)
  /\ UNCHANGED pendingRequests
  /\ UNCHANGED <<activeProcesses, children, clock>>
  /\ UNCHANGED <<senderVars, receiverVars, infoVars, legacyVars, hostVars>>

\* ---- handleIPCMessage, lines 48-84
handleIPCMessage(message) ==
  /\ Len(delivered) < MaxMessages
  /\ delivered' = Append(delivered, message)
  /\ requests' = HandledRequests(message)
  /\ pendingRequests' =
       IF message.type = "event" THEN pendingRequests
       ELSE MapDelete(pendingRequests, message.id)
  /\ UNCHANGED <<activeProcesses, children, clock>>
  /\ UNCHANGED <<senderVars, receiverVars, infoVars, legacyVars, hostVars>>

\* a timer whose callback forgets the request
TimeoutFiresSilently(r) ==
  /\ r \in DOMAIN requests
  /\ requests[r].timer = "armed"
  /\ requests' = [requests EXCEPT ![r].timer = "fired"]
  /\ UNCHANGED <<pendingRequests, delivered>>
  /\ UNCHANGED <<activeProcesses, children, clock>>
  /\ UNCHANGED <<senderVars, receiverVars, infoVars, legacyVars, hostVars>>

\* ---- the timer of a request fires, lines 101-112
TimeoutFires(r) ==
  /\ r \in DOMAIN requests
  /\ requests[r].timer = "armed"
  /\ IF MapHas(pendingRequests, requests[r].id)
       THEN /\ pendingRequests' = MapDelete(pendingRequests, requests[r].id)
            /\ requests' = [requests EXCEPT ![r] =
                              [Settle(@, Rejected("TIMEOUT", "Request timed out"))
                                 EXCEPT !.timer = "fired"]]
       ELSE /\ requests' = [requests EXCEPT ![r].timer = "fired"]
            /\ UNCHANGED pendingRequests
  /\ UNCHANGED delivered
  /\ UNCHANGED <<activeProcesses, children, clock>>
  /\ UNCHANGED <<senderVars, receiverVars, infoVars, legacyVars, hostVars>>

\* the requests that the entries of the map refer to
PendingRefs == {pendingRequests[id] : id \in DOMAIN pendingRequests}

\* ---- cancelAll of BrowserGitnestrBridge, lines 228-240
BrowserCancelAll ==
  /\ pendingRequests # EmptyMap
  /\ requests' = [r \in DOMAIN requests |->
                    IF r \in PendingRefs
                      THEN [Settle(requests[r],
                                   Rejected("INTERNAL_ERROR", "Request cancelled"))
                              EXCEPT !.timer = "cleared"]
                      ELSE requests[r]]
  /\ pendingRequests' = EmptyMap
  /\ UNCHANGED delivered
  /\ UNCHANGED <<activeProcesses, children, clock>>
  /\ UNCHANGED <<senderVars, receiverVars, infoVars, legacyVars, hostVars>>

IpcNext ==
  \/ \E method \in Methods : \E suffix \in Suffixes : sendIPCRequest(method, suffix)
  \/ \E message \in Messages : handleIPCMessage(message)
  \/ \E r \in 1..MaxRequests : TimeoutFires(r)
  \/ BrowserCancelAll
  \/ Tick

IpcSpec == Init /\ [][IpcNext]_vars

\* ------------------------------------------------------------------
\* C33: every request of BrowserGitnestrBridge is settled exactly once, by
\* whichever comes first of a response with its id (resolve with the
\* result, or reject with the code and message of the response), its
\* timeout (reject with TIMEOUT) or cancelAll (reject with 'Request
\* cancelled'); later responses, timeouts and cancels for the id have no
\* effect, a response with an unknown id changes nothing, and
\* pendingRequests holds exactly the unsettled requests.
\* ------------------------------------------------------------------
IpcSettled(r) == requests[r].promise.kind # "pending"

PendingIsUnsettled ==
  /\ \A r \in DOMAIN requests :
       /\ requests[r].settles = (IF IpcSettled(r) THEN 1 ELSE 0)
       /\ ~IpcSettled(r) =>
            /\ MapHas(pendingRequests, requests[r].id)
            /\ pendingRequests[requests[r].id] = r
  /\ \A id \in DOMAIN pendingRequests :
       /\ pendingRequests[id] \in DOMAIN requests
       /\ requests[pendingRequests[id]].id = id
       /\ ~IpcSettled(pendingRequests[id])

FirstSettles ==
  /\ \A r \in DOMAIN requests :
       IpcSettled(r) => requests'[r].promise = requests[r].promise
  /\ \A message \in Messages :
       handleIPCMessage(message) =>
         IF message.type = "response" /\ MapHas(pendingRequests, message.id)
           THEN /\ requests'[pendingRequests[message.id]].promise =
                     (IF message.error = "none"
                        THEN [kind |-> "resolved", code |-> "",
                              value |-> "message.result"]
                        ELSE [kind |-> "rejected", code |-> message.error,
                              value |-> "message.error.message"])
                /\ \A r \in DOMAIN requests \ {pendingRequests[message.id]} :
                     requests'[r] = requests[r]
           ELSE UNCHANGED <<pendingRequests, requests>>
  /\ \A r \in DOMAIN requests :
       TimeoutFires(r) /\ ~IpcSettled(r) =>
         /\ requests'[r].promise =
              [kind |-> "rejected", code |-> "TIMEOUT", value |-> "Request timed out"]
         /\ \A q \in DOMAIN requests \ {r} : requests'[q] = requests[q]
  /\ BrowserCancelAll =>
       \A r \in DOMAIN requests :
         ~IpcSettled(r) =>
           requests'[r].promise =
             [kind |-> "rejected", code |-> "INTERNAL_ERROR",
              value |-> "Request cancelled"]

C33_SettledExactlyOnce == [][FirstSettles]_vars /\ [](PendingIsUnsettled)

\* C33 witness: a response arrived for a request that its timeout had
\* rejected, a response with an unknown id arrived while a request was
\* pending, and a request was cancelled
C33_Witness ==
  /\ \E r \in DOMAIN requests :
       /\ requests[r].promise.code = "TIMEOUT"
       /\ requests[r].settles = 1
       /\ \E i \in DOMAIN delivered :
            delivered[i].type = "response" /\ delivered[i].id = requests[r].id
  /\ \E i \in DOMAIN delivered :
       delivered[i].type = "response" /\ delivered[i].id = UnknownId
  /\ \E r \in DOMAIN requests : requests[r].promise.value = "Request cancelled"

\* ------------------------------------------------------------------
\* C34: every request of BrowserGitnestrBridge eventually settles: when no
\* response with its id arrives before its timer fires, it is rejected
\* with a GitnestrError of code TIMEOUT and removed from pendingRequests,
\* so no request stays pending for ever.
\* ------------------------------------------------------------------

\* setTimeout (line 101): an armed timer that is not cleared fires
IpcLiveSpec == IpcSpec /\ \A r \in 1..MaxRequests : WF_vars(TimeoutFires(r))

TimeoutRejects ==
  \A r \in DOMAIN requests :
    TimeoutFires(r) /\ MapHas(pendingRequests, requests[r].id) =>
      /\ requests'[r].promise.kind = "rejected"
      /\ requests'[r].promise.code = "TIMEOUT"
      /\ ~MapHas(pendingRequests', requests[r].id)

C34_EventuallySettles ==
  /\ [][TimeoutRejects]_vars
  /\ \A r \in 1..MaxRequests :
       [](r \in DOMAIN requests =>
            <>(/\ r \in DOMAIN requests
               /\ requests[r].promise.kind # "pending"
               /\ ~MapHas(pendingRequests, requests[r].id)))

\* C34 witness: a request that got no response was rejected by its timer
\* and is no longer pending
C34_Witness ==
  \E r \in DOMAIN requests :
    /\ requests[r].promise.code = "TIMEOUT"
    /\ requests[r].timer = "fired"
    /\ \A i \in DOMAIN delivered : delivered[i].id # requests[r].id
    /\ ~MapHas(pendingRequests, requests[r].id)

\* ------------------------------------------------------------------
\* C35 (as claimed): every FileTransfer is in one of the states Receiving
\* (receivedChunks < totalChunks), Writing (receivedChunks = totalChunks,
\* write in flight) and Complete (write succeeded, isComplete), and it
\* moves only forward through them: a write is started only when
\* receivedChunks = totalChunks and isComplete becomes true only after
\* that write succeeded.
\* ------------------------------------------------------------------
WriteOfTransferInFlight(t) ==
  \E w \in WritesOf(t) : writePromises[w].state \in {"started", "writing"}

WriteSucceeded(t) == \E w \in WritesOf(t) : writePromises[w].state = "fulfilled"

Receiving(t) ==
  /\ transferObjs[t].receivedChunks < transferObjs[t].totalChunks
  /\ ~transferObjs[t].isComplete
  /\ WritesOf(t) = {}

Writing(t) ==
  /\ transferObjs[t].receivedChunks = transferObjs[t].totalChunks
  /\ ~transferObjs[t].isComplete
  /\ WriteOfTransferInFlight(t)

Complete(t) ==
  /\ transferObjs[t].isComplete
  /\ WriteSucceeded(t)

StateRank(t) == IF Receiving(t) THEN 1 ELSE IF Writing(t) THEN 2 ELSE 3

C35_FourStates ==
  /\ [](\A t \in 1..Len(transferObjs) : Receiving(t) \/ Writing(t) \/ Complete(t))
  /\ [][\A t \in 1..Len(transferObjs) : StateRank(t)' >= StateRank(t)]_vars

\* ------------------------------------------------------------------
\* Chunks of one path that disagree on totalChunks and on the data of an
\* index, as a sender that resends or restarts a file delivers them
\* ------------------------------------------------------------------
ResentData == <<"r">>

VariedChunks ==
  [path : {PathA}, index : 0..(MaxTotalChunks - 1), totalChunks : 1..MaxTotalChunks,
   data : {ChunkData(PathA, 0), ResentData}]

CountNext ==
  \/ \E id \in RepoIds : initializeRepo(id)
  \/ \E id \in RepoIds, m \in Manifests : setTransferManifest(m, id)
  \/ \E id \in RepoIds, c \in VariedChunks : receiveChunk(c, id)
  \/ \E w \in 1..Len(writePromises) : WriteFileAssemble(w)
  \/ \E w \in 1..Len(writePromises), ioFails \in BOOLEAN : WriteFileSettle(w, ioFails)

CountSpec == Init /\ [][CountNext]_vars

\* ------------------------------------------------------------------
\* C36: receivedChunks of a FileTransfer is the number of receiveChunk
\* calls made for its path since it was created (a resent chunk counts
\* again), totalChunks is the totalChunks of the first chunk received, and
\* the chunk map holds for each index the data of the most recent chunk
\* with that index, so that the distinct indices present are at most
\* receivedChunks.
\* ------------------------------------------------------------------
DataAt(chunks, index) ==
  chunks[CHOOSE k \in 1..Len(chunks) : chunks[k].index = index].data

\* the effect of one receiveChunk call on the FileTransfer of its path
CountsCall(chunk, id) ==
  LET had == HasTransfer(id, chunk.path)
      before == IF had THEN TransferOf(id, chunk.path) ELSE NewFileTransfer(chunk)
      after == TransferOf(id, chunk.path)'
  IN  /\ HasTransfer(id, chunk.path)'
      /\ had => RefOf(id, chunk.path)' = RefOf(id, chunk.path)
      /\ ~had => RefOf(id, chunk.path)' = Len(transferObjs) + 1
      /\ after.receivedChunks = (IF had THEN before.receivedChunks + 1 ELSE 1)
      /\ after.totalChunks = (IF had THEN before.totalChunks ELSE chunk.totalChunks)
      /\ ChunkIndices(after.chunks) = ChunkIndices(before.chunks) \cup {chunk.index}
      /\ DataAt(after.chunks, chunk.index) = chunk.data
      /\ \A i \in ChunkIndices(before.chunks) \ {chunk.index} :
           DataAt(after.chunks, i) = DataAt(before.chunks, i)
      /\ \A t \in 1..Len(transferObjs) :
           t # RefOf(id, chunk.path) =>
             /\ transferObjs'[t].receivedChunks = transferObjs[t].receivedChunks
             /\ transferObjs'[t].totalChunks = transferObjs[t].totalChunks
             /\ transferObjs'[t].chunks = transferObjs[t].chunks

\* no other step touches the count, the total or the chunk map
OnlyCallsCount ==
  (~ \E id \in RepoIds, c \in VariedChunks : receiveChunk(c, id)) =>
    /\ Len(transferObjs') = Len(transferObjs)
    /\ \A t \in 1..Len(transferObjs) :
         /\ transferObjs'[t].receivedChunks = transferObjs[t].receivedChunks
         /\ transferObjs'[t].totalChunks = transferObjs[t].totalChunks
         /\ transferObjs'[t].chunks = transferObjs[t].chunks

C36_ReceivedChunksCountsCalls ==
  /\ [][/\ \A id \in RepoIds, c \in VariedChunks : receiveChunk(c, id) => CountsCall(c, id)
        /\ OnlyCallsCount]_vars
  /\ [](\A t \in 1..Len(transferObjs) :
          /\ transferObjs[t].receivedChunks >= 1
          /\ Cardinality(ChunkIndices(transferObjs[t].chunks)) <= transferObjs[t].receivedChunks)

\* C36 witness: a FileTransfer that took three chunks, the first with
\* totalChunks 2 and a later one with totalChunks 1, holds one index, with
\* the resent data
C36_Witness ==
  \E t \in 1..Len(transferObjs) :
    /\ transferObjs[t].receivedChunks = 3
    /\ transferObjs[t].totalChunks = 2
    /\ ChunkIndices(transferObjs[t].chunks) = {0}
    /\ DataAt(transferObjs[t].chunks, 0) = ResentData
    /\ WritesOf(t) # {}

\* ------------------------------------------------------------------
\* The single-repository receiver (packages/browser-git-bridge), driven
\* with the calls the multi-repository receiver gets under one
\* RepositoryId.  The caller awaits each call, as the migration note of
\* the README shows, so that the write of a file is over when
\* receiveChunk returns.
\* ------------------------------------------------------------------

\* normalizePath, lines 129-142
normalizePath(filePath) ==
  LET stripped == IF filePath # <<>> /\ Head(filePath) = "/" THEN Tail(filePath) ELSE filePath
      slashed == ReplaceToken(stripped, "\\", "/")
  IN  <<"/">> \o CollapseSlashes(slashed)

\* writeFile of the single-repository receiver, lines 202-240: [ok, fs]
LegacyWriteFile(f, filePath, chunks) ==
  LET normalizedPath == normalizePath(filePath)
      made == ensureDir(f, DirName(normalizedPath))
      q == FsPath(normalizedPath)
      written == IF made.ok /\ q.ok
                   THEN FsWriteFile(made.fs, q.path, AssembleFile(chunks))
                   ELSE [err |-> "EINVAL", fs |-> made.fs]
  IN  [ok |-> made.ok /\ written.err = "", fs |-> written.fs]

\* setTransferManifest, lines 53-57
LegacySetTransferManifest(manifest) ==
  /\ legacy.calls = calls
  /\ calls < MaxCalls
  /\ legacy' = [legacy EXCEPT !.hasManifest = TRUE,
                              !.transferManifest = manifest,
                              !.transferComplete = FALSE,
                              !.currentTransfer = EmptyMap,
                              !.calls = @ + 1,
                              !.last = [op |-> "setTransferManifest",
                                        manifest |-> manifest, chunk |-> NoChunk]]
  /\ UNCHANGED <<activeProcesses, children, clock, ipcVars, hostVars>>
  /\ UNCHANGED <<senderVars, receiverVars, infoVars>>

\* receiveChunk, lines 166-200
LegacyReceiveChunk(chunk) ==
  LET existing == MapHas(legacy.currentTransfer, chunk.path)
      transfer == RecordChunk(IF existing THEN legacy.currentTransfer[chunk.path]
                              ELSE NewFileTransfer(chunk), chunk)
      written == LegacyWriteFile(legacy.fs, chunk.path, transfer.chunks)
      wrote == AllChunksReceived(transfer)
  IN  /\ legacy.calls = calls
      /\ calls < MaxCalls
      /\ legacy' = [legacy EXCEPT
                      !.currentTransfer =
                         MapSet(@, chunk.path,
                                [transfer EXCEPT !.isComplete = @ \/ (wrote /\ written.ok)]),
                      !.fs = IF wrote THEN written.fs ELSE @,
                      !.calls = @ + 1,
                      !.last = [op |-> "receiveChunk", manifest |-> NoManifest,
                                chunk |-> chunk]]
      /\ UNCHANGED <<activeProcesses, children, clock, ipcVars, hostVars>>
      /\ UNCHANGED <<senderVars, receiverVars, infoVars>>

RECURSIVE LegacyAllFilesComplete(_, _)
\* the loop of isTransferComplete, lines 63-68
LegacyAllFilesComplete(files, transfers) ==
  IF files = <<>> THEN TRUE
  ELSE IF ~MapHas(transfers, Head(files)) \/ ~transfers[Head(files)].isComplete THEN FALSE
  ELSE LegacyAllFilesComplete(Tail(files), transfers)

\* what isTransferComplete returns, lines 59-72
LegacyIsTransferComplete(l) ==
  l.hasManifest /\ LegacyAllFilesComplete(l.transferManifest.files, l.currentTransfer)

\* isTransferComplete is called: a true result is kept in transferComplete
\* (line 70)
LegacyAsksComplete ==
  /\ legacy.calls = calls
  /\ LegacyIsTransferComplete(legacy)
  /\ ~legacy.transferComplete
  /\ legacy' = [legacy EXCEPT !.transferComplete = TRUE]
  /\ UNCHANGED <<activeProcesses, children, clock, ipcVars, hostVars>>
  /\ UNCHANGED <<senderVars, receiverVars, infoVars>>

\* the check of one manifested path, lines 86-103: "" when it passes
LegacyVerifyFile(f, filePath) ==
  LET q == FsPath(normalizePath(filePath))
  IN  IF ~q.ok \/ q.path \notin DOMAIN f THEN "Failed to verify"
      ELSE IF f[q.path].type # "file" THEN "exists but is not a file"
      ELSE IF ~f[q.path].readable THEN "exists but cannot be read"
      ELSE ""

RECURSIVE LegacyVerifyFiles(_, _)
LegacyVerifyFiles(f, files) ==
  IF files = <<>> THEN <<>>
  ELSE LET e == LegacyVerifyFile(f, Head(files))
           rest == LegacyVerifyFiles(f, Tail(files))
       IN  IF e = "" THEN rest ELSE <<[path |-> Head(files), error |-> e]>> \o rest

\* verifyTransfer, lines 74-110
LegacyVerifyTransfer(l) ==
  IF ~l.hasManifest THEN NoManifestResult
  ELSE IF ~l.transferComplete
    THEN [success |-> FALSE, errors |-> <<[path |-> <<>>, error |-> "Transfer is not complete"]>>]
  ELSE LET errors == LegacyVerifyFiles(l.fs, l.transferManifest.files)
       IN  [success |-> Len(errors) = 0, errors |-> errors]

\* the call the single-repository receiver got last is made on the
\* multi-repository receiver
Follows(op) == legacy.calls = calls + 1 /\ legacy.last.op = op

MigrateNext ==
  \/ \E m \in Manifests : LegacySetTransferManifest(m)
  \/ \E c \in FileChunks : LegacyReceiveChunk(c)
  \/ LegacyAsksComplete
  \/ \E id \in RepoIds : legacy.calls = calls /\ initializeRepo(id)
  \/ \E id \in RepoIds :
       /\ Follows("setTransferManifest")
       /\ setTransferManifest(legacy.last.manifest, id)
  \/ \E id \in RepoIds :
       /\ Follows("receiveChunk")
       /\ receiveChunk(legacy.last.chunk, id)
  \/ \E w \in 1..Len(writePromises) : WriteFileAssemble(w)
  \/ \E w \in 1..Len(writePromises) : WriteFileSettle(w, FALSE)

MigrateSpec == Init /\ [][MigrateNext]_vars

\* ------------------------------------------------------------------
\* C37 (as claimed): the multi-repository receiver used with one
\* RepositoryId behaves like the single-repository receiver: after any
\* sequence of setTransferManifest and receiveChunk calls without write
\* failures, the pending writes awaited, both give the same
\* isTransferComplete result, the same verifyTransfer result and the same
\* file contents relative to their root.
\* ------------------------------------------------------------------
\* both receivers got the same calls and no write is in flight or failed
SameCallsSettled ==
  /\ legacy.calls = calls
  /\ \A w \in 1..Len(writePromises) : writePromises[w].state = "fulfilled"
  /\ \A p \in DOMAIN legacy.currentTransfer :
       AllChunksReceived(legacy.currentTransfer[p]) => legacy.currentTransfer[p].isComplete

\* the files of a filesystem under a root, by their path from the root
FilesFrom(f, root) ==
  {[path |-> SubSeq(q, Len(root) + 1, Len(q)), data |-> f[q].data] : q \in FilesUnder(f, root)}

\* what verifyTransfer(id) returns when no write is pending
VerifyTransferNow(id) ==
  IF ~MapHas(transferManifests, getRepoKey(id)) THEN NoManifestResult
  ELSE VerifyResult(transferManifests[getRepoKey(id)], id)

C37_SameAsSingleRepository ==
  \A id \in RepoIds :
    SameCallsSettled =>
      /\ isTransferComplete(id) = LegacyIsTransferComplete(legacy)
      /\ VerifyTransferNow(id) = LegacyVerifyTransfer(legacy)
      /\ FilesFrom(fs, FsPath(getRepoPath(id)).path) = FilesFrom(legacy.fs, <<>>)

\* ------------------------------------------------------------------
\* Repositories created, filled, listed and deleted under identifiers
\* whose parts may hold a ':'
\* ------------------------------------------------------------------
ListNext ==
  \/ \E id \in IsoRepoIds : calls < IsoMaxCalls /\ initializeRepo(id)
  \/ \E id \in IsoRepoIds, c \in IsoChunks : calls < IsoMaxCalls /\ receiveChunk(c, id)
  \/ \E w \in 1..Len(writePromises) : WriteFileAssemble(w)
  \/ \E w \in 1..Len(writePromises), ioFails \in BOOLEAN : WriteFileSettle(w, ioFails)
  \/ \E id \in IsoRepoIds : calls < IsoMaxCalls /\ deleteRepository(id)

ListSpec == IsoInit /\ [][ListNext]_vars

\* lines 497-503: match[1] is the name up to its first ':', match[2] the rest
ParseRepoDir(name) ==
  LET i == CHOOSE k \in 1..Len(name) : name[k] = ":" /\ \A j \in 1..(k - 1) : name[j] # ":"
  IN  [ownerPubkey |-> SubSeq(name, 1, i - 1), repoName |-> SubSeq(name, i + 1, Len(name))]

\* what listRepositories() returns
ListedIds(f) == {ParseRepoDir(q[1]) : q \in listRepositories(f)}

\* ------------------------------------------------------------------
\* C38 (as claimed): listRepositories() returns exactly the RepositoryIds
\* that were initialized and not deleted: an initializeRepo adds its id to
\* the list, a deleteRepository takes its id out, nothing else changes the
\* list; the directory name of an id parses back to the id, and no two
\* ids share a directory or a tracking key.
\* ------------------------------------------------------------------
ListFollowsCalls ==
  /\ \A id \in IsoRepoIds :
       /\ initializeRepo(id) => ListedIds(fs') = ListedIds(fs) \cup {id}
       /\ deleteRepository(id) => ListedIds(fs') = ListedIds(fs) \ {id}
  /\ (~ \E id \in IsoRepoIds : initializeRepo(id) \/ deleteRepository(id)) =>
       ListedIds(fs') = ListedIds(fs)

C38_ListIsInitializedNotDeleted ==
  /\ [][ListFollowsCalls]_vars
  /\ [](\A a \in IsoRepoIds, b \in IsoRepoIds :
          FsPath(getRepoPath(a)).path \in DOMAIN fs =>
            /\ ParseRepoDir(getRepoKey(a)) = a
            /\ a # b => getRepoKey(a) # getRepoKey(b) /\ getRepoPath(a) # getRepoPath(b))

\* ------------------------------------------------------------------
\* GitnestrBridge.writeFile (lines 535-579) on a POSIX host.  A path is
\* the sequence of its characters.
\* ------------------------------------------------------------------
MaxPathLen == 4
MaxWrites == 2

PathChars == {".", "/", "a"}

FilePaths == UNION {[1..n -> PathChars] : n \in 0..MaxPathLen}

DotDot == <<".", ".">>

RECURSIVE NormalizeSegs(_, _, _)
\* path.normalize over the segments of a path: '.' is dropped, '..' takes
\* the segment before it away, is dropped at the root of an absolute path
\* and is kept at the front of a relative one
NormalizeSegs(segs, acc, abs) ==
  IF segs = <<>> THEN acc
  ELSE IF Head(segs) = <<".">> THEN NormalizeSegs(Tail(segs), acc, abs)
  ELSE IF Head(segs) = DotDot
    THEN IF acc # <<>> /\ acc[Len(acc)] # DotDot
           THEN NormalizeSegs(Tail(segs), SubSeq(acc, 1, Len(acc) - 1), abs)
         ELSE IF abs THEN NormalizeSegs(Tail(segs), acc, abs)
         ELSE NormalizeSegs(Tail(segs), Append(acc, DotDot), abs)
  ELSE NormalizeSegs(Tail(segs), Append(acc, Head(segs)), abs)

\* path.normalize(filePath), line 538: whether the result begins with '/',
\* its segments, and whether it ends with '/'
PosixNormalize(filePath) ==
  LET abs == filePath # <<>> /\ Head(filePath) = "/"
  IN  [absolute |-> abs,
       segs |-> NormalizeSegs(SplitPath(filePath), <<>>, abs),
       trailing |-> filePath # <<>> /\ filePath[Len(filePath)] = "/"]

\* normalizedFilePath.startsWith('..'), line 541
StartsWithDotDot(n) ==
  /\ ~n.absolute
  /\ n.segs # <<>>
  /\ Len(n.segs[1]) >= 2
  /\ SubSeq(n.segs[1], 1, 2) = DotDot

\* line 541: the path is refused
IsTraversal(n) == StartsWithDotDot(n) \/ n.absolute

\* the repository of the calls: repoPath is '/r'
HostRepoRoot == << <<"r">> >>

HostNew == MapSet(EmptyFs, HostRepoRoot, DirNode)

RECURSIVE MkdirRecursive(_, _, _)
\* fs.mkdir(directory, { recursive: true }), line 549: [ok, fs]
MkdirRecursive(f, p, k) ==
  IF k > Len(p) THEN [ok |-> TRUE, fs |-> f]
  ELSE LET q == SubSeq(p, 1, k)
       IN  IF q \in DOMAIN f
             THEN IF f[q].type = "dir" THEN MkdirRecursive(f, p, k + 1)
                  ELSE [ok |-> FALSE, fs |-> f]
             ELSE MkdirRecursive(MapSet(f, q, DirNode), p, k + 1)

FileContent == <<"content">>

\* lines 545-552: fullPath = path.join(repoPath, normalizedFilePath), the
\* directory is made and the file is written: [ok, fs]
HostWrite(f, n) ==
  LET fullPath == HostRepoRoot \o n.segs
      made == MkdirRecursive(f, Parent(fullPath), 1)
      written == IF made.ok /\ ~n.trailing
                   THEN FsWriteFile(made.fs, fullPath, FileContent)
                   ELSE [err |-> "EISDIR", fs |-> made.fs]
  IN  [ok |-> made.ok /\ written.err = "", fs |-> written.fs]

WriteFileEvent(type, code) == [type |-> type, command |-> "writeFile", code |-> code]

\* ---- writeFile, lines 535-579
writeFile(filePath) ==
  LET n == PosixNormalize(filePath)
      done == HostWrite(hostFs, n)
      ok == ~IsTraversal(n) /\ done.ok
  IN  /\ Len(writeFileCalls) < MaxWrites
      /\ hostFs' = IF IsTraversal(n) THEN hostFs ELSE done.fs
      /\ writeFileCalls' =
           Append(writeFileCalls,
                  [filePath |-> filePath,
                   events |-> IF ok THEN <<WriteFileEvent("success", "")>>
                              ELSE <<WriteFileEvent("error", "INTERNAL_ERROR")>>,
                   outcome |-> IF ok THEN Resolved("{success: true, message}")
                               ELSE Rejected("INTERNAL_ERROR", "Failed to write file")])
      /\ UNCHANGED <<activeProcesses, children, clock, ipcVars, legacyVars>>
      /\ UNCHANGED <<senderVars, receiverVars, infoVars>>

WriteNext == \E filePath \in FilePaths : writeFile(filePath)

WriteSpec == Init /\ [][WriteNext]_vars

\* ------------------------------------------------------------------
\* C39 (as claimed): writeFile never writes outside repoPath: for a
\* filePath that is absolute or normalizes to a path leaving the
\* repository root it writes nothing, emits one 'error' event and rejects
\* with INTERNAL_ERROR; for every other filePath it writes exactly the
\* file repoPath/filePath and emits one 'success' event.
\* ------------------------------------------------------------------
\* the normalized path is absolute or climbs out of the root
LeavesRoot(n) == n.absolute \/ (n.segs # <<>> /\ n.segs[1] = DotDot)

\* the path names a file that the host can create under the root: it is
\* not the root itself, does not end with '/', no directory is in its
\* place and no file is in the place of a directory of it
Creatable(f, n) ==
  LET fullPath == HostRepoRoot \o n.segs
  IN  /\ n.segs # <<>>
      /\ ~n.trailing
      /\ ~(fullPath \in DOMAIN f /\ f[fullPath].type = "dir")
      /\ \A k \in 1..(Len(fullPath) - 1) :
           SubSeq(fullPath, 1, k) \in DOMAIN f => f[SubSeq(fullPath, 1, k)].type = "dir"

FilesOf(f) == {q \in DOMAIN f : f[q].type = "file"}

WriteFileContract(filePath) ==
  LET n == PosixNormalize(filePath)
      call == writeFileCalls'[Len(writeFileCalls')]
  IN  IF LeavesRoot(n)
        THEN /\ hostFs' = hostFs
             /\ call.events = <<WriteFileEvent("error", "INTERNAL_ERROR")>>
             /\ call.outcome.kind = "rejected"
             /\ call.outcome.code = "INTERNAL_ERROR"
        ELSE Creatable(hostFs, n) =>
             /\ FilesOf(hostFs') = FilesOf(hostFs) \cup {HostRepoRoot \o n.segs}
             /\ hostFs'[HostRepoRoot \o n.segs].data = FileContent
             /\ \A q \in FilesOf(hostFs) \ {HostRepoRoot \o n.segs} : hostFs'[q] = hostFs[q]
             /\ call.events = <<WriteFileEvent("success", "")>>
             /\ call.outcome.kind = "resolved"

C39_WriteFileStaysInside ==
  /\ [][\A filePath \in FilePaths : writeFile(filePath) => WriteFileContract(filePath)]_vars
  /\ [](\A q \in DOMAIN hostFs : q = <<>> \/ IsPrefix(HostRepoRoot, q))

\* ------------------------------------------------------------------
\* C40 (as claimed): initializeRepo(id) succeeds whether or not the root
\* of the repository exists, leaves every file stored under the root
\* unchanged, leaves id with an empty path-to-FileTransfer map, an empty
\* list of pending writes and an unresolved completion signal, and does
\* not change the state of any other repository.
\* ------------------------------------------------------------------
\* the completion signal of a repository, if it has one
SignalOf(id) ==
  IF MapHas(transferCompletePromises, getRepoKey(id))
    THEN <<transferCompletePromises[getRepoKey(id)]>> ELSE <<>>

InitializeRepoContract(id) ==
  /\ RootOf(id) \in DOMAIN fs'
  /\ fs'[RootOf(id)].type = "dir"
  /\ \A q \in DOMAIN fs : q \in DOMAIN fs' /\ fs'[q] = fs[q]
  /\ currentTransfers'[getRepoKey(id)] = EmptyMap
  /\ pendingWrites'[getRepoKey(id)] = <<>>
  /\ transferCompletePromises'[getRepoKey(id)] = "pending"
  /\ \A other \in IsoRepoIds \ {id} :
       /\ RepoState(other)' = RepoState(other)
       /\ SignalOf(other)' = SignalOf(other)

C40_InitializeRepoFrame ==
  [][\A id \in IsoRepoIds : initializeRepo(id) => InitializeRepoContract(id)]_vars

====
